---- MODULE Spec2Model ----
(***************************************************************************)
(* A model of subs2cia: the TimeRanges interval set (time_ranges.py), the  *)
(* subtitle retimer (retiming_helpers.py) and the ASS time codec and line  *)
(* rewriter (subtitles_ass.py).                                            *)
(*                                                                         *)
(* Python values are modelled as follows.  A tuple (start, end) is the     *)
(* sequence <<start, end>>; a list is a sequence; list positions are       *)
(* 0-based as in the source and are read through At, which implements      *)
(* Python's indexing (negative positions count from the end).  None is the *)
(* empty sequence and a present optional value x is <<x>>.  A str is a     *)
(* TLA+ string.                                                            *)
(*                                                                         *)
(* Rescaling multiplies by the float new/old.  Within the bounds used here *)
(* (units per second up to 5, time stamps below 200) the float product,    *)
(* floored or ceiled, equals the exact rational one, which is what         *)
(* FloorMul and CeilMul compute.                                           *)
(***************************************************************************)
EXTENDS Integers, Sequences, FiniteSets, TLC

VARIABLES
    ranges,                  \* TimeRanges._ranges
    units_per_second,        \* TimeRanges._units_per_second
    cached_cumulative_skip,  \* TimeRanges._cached_cumulative_skip
    ret,                     \* what the last call returned or raised
    added,                   \* the pairs handed to add so far, in call order
    codec,                   \* a time field on its way through parse_time and unparse_time
    rewriter,                \* a call of subtitles_ass.retime: its files and its locals
    writer,                  \* a call of a filter-graph writer of ffmpeg_helpers: its file and its locals
    manager,                 \* a MultiContextManager and the with statement around it
    prober,                  \* an FfprobeWrapper, the probe subprocesses started and the last call of probe
    cli,                     \* a run of the condense or of the srs command: its arguments, position and effects
    subs,                    \* the Subtitles object being modified by modify_subtitles
    parser,                  \* the locals of subtitles_ass.parse and what it did with each line
    srs                      \* the loops over the events and the jobs in cli_srs.main

vars ==
    <<ranges, units_per_second, cached_cumulative_skip, ret,
      added, codec, rewriter, writer,
      manager, prober, cli, subs,
      parser, srs>>

\* Largest time stamp of the TimeRanges state machine.
MaxTime == 4
\* Units per second range over 1..MaxUps.
MaxUps == 2
\* Largest padding amount.
MaxPad == 1
\* Number of pairs handed to from_unsorted when the object is constructed.
MaxUnsorted == 2
\* add is not called on a list that already holds MaxRanges ranges.
MaxRanges == 3
\* Number of add calls followed from an empty TimeRanges.
MaxAdds == 3
\* Largest number of digits of the hours part of a time field.
MaxHourDigits == 2
\* Largest time stamp, in hundredths, of the events and ranges given to retime.
MaxStamp == 3
\* Largest number of lines of a file made of arbitrary lines.
MaxLines == 3
\* Children accepted by a MultiContextManager.
MaxChildren == 3
\* Calls of probe on one FfprobeWrapper.
MaxProbes == 3
\* Screenshot jobs of a run of the srs command.
MaxJobs == 2
MaxEvents == 2       \* events of a Subtitles object given to modify_subtitles
MaxNeedles == 2      \* strings in remove_containing, and in keep_containing

None == <<>>
Some(x) == <<x>>

Max(a, b) == IF a >= b THEN a ELSE b
Min(a, b) == IF a <= b THEN a ELSE b

\* Python's seq[i]: position i counted from 0, a negative i from the end.
\* Only applied where InRange(seq, i) holds; elsewhere the code raises.
InRange(seq, i) == -Len(seq) <= i /\ i < Len(seq)
At(seq, i) == IF i < 0 THEN seq[Len(seq) + i + 1] ELSE seq[i + 1]

\* list.insert(idx, x) for 0 <= idx <= len
Insert(seq, idx, x) == SubSeq(seq, 1, idx) \o <<x>> \o SubSeq(seq, idx + 1, Len(seq))
\* del seq[idx]
Delete(seq, idx) == SubSeq(seq, 1, idx) \o SubSeq(seq, idx + 2, Len(seq))
\* seq[idx] = x
Replace(seq, idx, x) == [seq EXCEPT ![idx + 1] = x]

_ranges_overlap(range1, range2) ==
    \/ (range1[1] >= range2[1] /\ range1[1] <= range2[2])
    \/ (range2[1] >= range1[1] /\ range2[1] <= range1[2])

_merge_ranges(range1, range2) ==
    << Max(0, Min(range1[1], range2[1])), Max(range1[2], range2[2]) >>

\* The for loop of _consolidate_overlapping_ranges: ret is the list built so
\* far, rest what the iterator still holds.
RECURSIVE ConsolidateLoop(_, _)
ConsolidateLoop(acc, rest) ==
    IF rest = <<>> THEN acc
    ELSE LET r1 == acc[Len(acc)]
             r2 == Head(rest)
         IN IF _ranges_overlap(r1, r2)
            THEN ConsolidateLoop([acc EXCEPT ![Len(acc)] = _merge_ranges(r1, r2)], Tail(rest))
            ELSE ConsolidateLoop(Append(acc, r2), Tail(rest))

\* The list left as it is: no range merged with its neighbour.
_consolidate_overlapping_ranges_skipped(time_ranges) == time_ranges

_consolidate_overlapping_ranges(time_ranges) ==
    IF Len(time_ranges) <= 1 THEN time_ranges
    ELSE ConsolidateLoop(<<Head(time_ranges)>>, Tail(time_ranges))

\* ranges.sort(key=lambda x: x[0]): a stable sort on the start stamp.
RECURSIVE SortInsert(_, _)
SortInsert(sorted, x) ==
    IF sorted = <<>> THEN <<x>>
    ELSE IF sorted[Len(sorted)][1] <= x[1] THEN Append(sorted, x)
    ELSE Append(SortInsert(SubSeq(sorted, 1, Len(sorted) - 1), x), sorted[Len(sorted)])

RECURSIVE SortByStart(_)
SortByStart(seq) ==
    IF seq = <<>> THEN <<>>
    ELSE SortInsert(SortByStart(SubSeq(seq, 1, Len(seq) - 1)), seq[Len(seq)])

\* A TimeRanges object as a value.
TimeRanges(rs, ups) ==
    [_ranges |-> rs, _units_per_second |-> ups, _cached_cumulative_skip |-> None]

from_unsorted(pairs, ups) ==
    TimeRanges(_consolidate_overlapping_ranges(SortByStart(pairs)), ups)

create_empty(ups) == TimeRanges(<<>>, ups)

clone(self) == TimeRanges(self._ranges, self._units_per_second)

\* math.floor(x * (num / den)) and math.ceil(x * (num / den))
FloorMul(x, num, den) == (x * num) \div den
CeilMul(x, num, den) == (x * num + den - 1) \div den

\* set_units_per_second: the ranges are rescaled and the cache dropped; the
\* method does not assign self._units_per_second.
set_units_per_second(self, ups) ==
    IF self._units_per_second = ups THEN self
    ELSE [self EXCEPT
            !._ranges = [i \in 1..Len(self._ranges) |->
                            << FloorMul(self._ranges[i][1], ups, self._units_per_second),
                               CeilMul(self._ranges[i][2], ups, self._units_per_second) >>],
            !._cached_cumulative_skip = None]

with_units_per_second(self, ups) == set_units_per_second(clone(self), ups)

\* add_padding, for pad_start, pad_end >= 0 and pad_ups > 0.
add_padding(self, pad_start, pad_end, pad_ups) ==
    IF pad_start = 0 /\ pad_end = 0 THEN self
    ELSE LET s1 == IF pad_ups > self._units_per_second
                   THEN set_units_per_second(self, pad_ups)
                   ELSE self
             ps == IF pad_ups < self._units_per_second
                   THEN FloorMul(pad_start, self._units_per_second, pad_ups)
                   ELSE pad_start
             pe == IF pad_ups < self._units_per_second
                   THEN CeilMul(pad_end, self._units_per_second, pad_ups)
                   ELSE pad_end
             padded == [i \in 1..Len(s1._ranges) |->
                          << Max(0, s1._ranges[i][1] - ps), s1._ranges[i][2] + pe >>]
         IN [s1 EXCEPT !._ranges = _consolidate_overlapping_ranges(padded),
                       !._cached_cumulative_skip = None]
\* The loop with the upper half cut one position too low.
RECURSIVE GetIndexLoopShort(_, _, _, _)
GetIndexLoopShort(rs, start, low, high) ==
    IF ~(low < high) THEN low
    ELSE LET middle == (low + high) \div 2
             middle_value == At(rs, middle)
         IN IF middle_value[1] = start THEN middle
            ELSE IF middle_value[1] < start
                 THEN GetIndexLoopShort(rs, start, middle + 1, high)
                 ELSE GetIndexLoopShort(rs, start, low, middle - 1)

\* The while loop of get_index.
RECURSIVE GetIndexLoop(_, _, _, _)
GetIndexLoop(rs, start, low, high) ==
    IF ~(low < high) THEN low
    ELSE LET middle == (low + high) \div 2
             middle_value == At(rs, middle)
         IN IF middle_value[1] = start THEN middle
            ELSE IF middle_value[1] < start
                 THEN GetIndexLoop(rs, start, middle + 1, high)
                 ELSE GetIndexLoop(rs, start, low, middle)

get_index(self, start) ==
    LET rs == self._ranges
    IN IF Len(rs) = 0 THEN 0
       ELSE IF At(rs, 0)[1] > start THEN 0
       ELSE IF At(rs, -1)[1] < start THEN Len(rs)
       ELSE GetIndexLoop(rs, start, 0, Len(rs))

\* add without the leftward sweep: the inserted range is merged with its
\* right neighbours only.
MergeLeftSkipped(rs, index) == <<rs, index>>

\* First while loop of _consolidate_overlapping_ranges_around: merge leftwards.
\* The result is <<ranges, index>>.
RECURSIVE MergeLeft(_, _)
MergeLeft(rs, index) ==
    IF index > 0 /\ _ranges_overlap(At(rs, index - 1), At(rs, index))
    THEN MergeLeft(Delete(Replace(rs, index - 1,
                                  _merge_ranges(At(rs, index - 1), At(rs, index))),
                          index),
                   index - 1)
    ELSE <<rs, index>>

\* Second while loop: merge rightwards.
RECURSIVE MergeRight(_, _)
MergeRight(rs, index) ==
    IF (index + 1) < Len(rs) /\ _ranges_overlap(At(rs, index), At(rs, index + 1))
    THEN MergeRight(Delete(Replace(rs, index,
                                   _merge_ranges(At(rs, index), At(rs, index + 1))),
                           index + 1),
                    index)
    ELSE rs

\* The early return for a list of at most one range leaves the cache as it is.
_consolidate_overlapping_ranges_around(self, index) ==
    IF Len(self._ranges) <= 1 THEN self
    ELSE LET left == MergeLeft(self._ranges, index)
         IN [self EXCEPT !._ranges = MergeRight(left[1], left[2]),
                         !._cached_cumulative_skip = None]

add(self, start, end) ==
    LET idx == get_index(self, start)
    IN _consolidate_overlapping_ranges_around(
           [self EXCEPT !._ranges = Insert(self._ranges, idx, <<start, end>>)], idx)

\* The list _rebuild_cumulative_skip stores in the cache.
RECURSIVE RebuildLoop(_, _, _)
RebuildLoop(rs, cache, idx) ==
    IF idx >= Len(rs) THEN cache
    ELSE LET this_skip == At(rs, idx)[1] - At(rs, idx - 1)[2]
         IN RebuildLoop(rs, Append(cache, At(cache, idx - 1) + this_skip), idx + 1)

_rebuild_cumulative_skip(self) ==
    IF Len(self._ranges) = 0
    THEN [self EXCEPT !._cached_cumulative_skip = Some(<<>>)]
    ELSE [self EXCEPT !._cached_cumulative_skip =
                          Some(RebuildLoop(self._ranges, <<At(self._ranges, 0)[1]>>, 1))]

\* get_cumulative_skip: the object afterwards, the value returned and the
\* exception raised ("" for none).  The cache is rebuilt before the list is
\* indexed, so a failed call leaves the rebuilt cache behind.
get_cumulative_skip(self, idx) ==
    LET s1 == IF self._cached_cumulative_skip = None
              THEN _rebuild_cumulative_skip(self)
              ELSE self
        cache == s1._cached_cumulative_skip[1]
    IN IF InRange(cache, idx)
       THEN [self |-> s1, val |-> <<At(cache, idx)>>, exc |-> ""]
       ELSE [self |-> s1, val |-> <<>>, exc |-> "IndexError"]

\* for i in range(guess_idx, -1, -1): the first relevant range.
RECURSIVE FirstIdxLoop(_, _, _, _)
FirstIdxLoop(rs, sub_start, i, first_idx) ==
    IF i < 0 THEN first_idx
    ELSE IF At(rs, i)[2] < sub_start THEN i + 1
    ELSE FirstIdxLoop(rs, sub_start, i - 1, i)

\* for i in range(guess_idx, len(time_ranges)): the last relevant range.
RECURSIVE LastIdxLoop(_, _, _, _)
LastIdxLoop(rs, sub_end, i, last_idx) ==
    IF i >= Len(rs) THEN last_idx
    ELSE IF At(rs, i)[1] > sub_end THEN i - 1
    ELSE LastIdxLoop(rs, sub_end, i + 1, i)

Returned(self, val) == [self |-> self, val |-> val, exc |-> ""]
Raised(self, exc) == [self |-> self, val |-> None, exc |-> exc]

\* The start of the event moved to the start of the range, whatever it is.
ClipStartAlways(first_range, sub_start) == first_range[1]

\* if first_range[0] >= sub_start: sub_start = first_range[0]
ClipStart(first_range, sub_start) ==
    IF first_range[1] >= sub_start THEN first_range[1] ELSE sub_start

\* The end of the event left as it is.
ClipEndMissing(last_range, sub_end) == sub_end

\* if last_range[1] <= sub_end: sub_end = last_range[1]
ClipEnd(last_range, sub_end) ==
    IF last_range[2] <= sub_end THEN last_range[2] ELSE sub_end

\* adjust_timing: the TimeRanges afterwards (its cache may have been built),
\* the value returned (None, or <<start, end>>) and the exception raised.
adjust_timing(sub_start, sub_end, time_ranges) ==
    LET rs == time_ranges._ranges
        n == Len(rs)
        g == get_index(time_ranges, sub_start)
        guess_idx == IF g >= n THEN g - 1 ELSE g
        first_idx == FirstIdxLoop(rs, sub_start, guess_idx, guess_idx)
        last_idx == LastIdxLoop(rs, sub_end, guess_idx, first_idx)
    IN IF n = 0 THEN Returned(time_ranges, None)
       ELSE IF first_idx >= n THEN Returned(time_ranges, None)
       ELSE IF ~InRange(rs, first_idx) \/ ~InRange(rs, last_idx)
            THEN Raised(time_ranges, "IndexError")
       ELSE LET first_range == At(rs, first_idx)
                last_range == At(rs, last_idx)
                clip_start == ClipStart(first_range, sub_start)
                clip_end == ClipEnd(last_range, sub_end)
                before == get_cumulative_skip(time_ranges, first_idx)
                during == get_cumulative_skip(before.self, last_idx)
            IN IF before.exc # "" THEN Raised(before.self, before.exc)
               ELSE IF during.exc # "" THEN Raised(during.self, during.exc)
               ELSE LET new_start == clip_start - before.val[1]
                        new_end == clip_end - during.val[1]
                    IN IF new_end <= new_start
                       THEN Returned(during.self, None)
                       ELSE Returned(during.self, <<new_start, new_end>>)

(***************************************************************************)
(* Strings, and the ASS time codec of subtitles_ass.py.                    *)
(***************************************************************************)
Char(s, i) == SubSeq(s, i, i)

Digits == {"0", "1", "2", "3", "4", "5", "6", "7", "8", "9"}
DigitValue(c) ==
    CASE c = "0" -> 0 [] c = "1" -> 1 [] c = "2" -> 2 [] c = "3" -> 3 [] c = "4" -> 4
      [] c = "5" -> 5 [] c = "6" -> 6 [] c = "7" -> 7 [] c = "8" -> 8 [] c = "9" -> 9
DigitChar(d) ==
    CASE d = 0 -> "0" [] d = 1 -> "1" [] d = 2 -> "2" [] d = 3 -> "3" [] d = 4 -> "4"
      [] d = 5 -> "5" [] d = 6 -> "6" [] d = 7 -> "7" [] d = 8 -> "8" [] d = 9 -> "9"

\* The characters str.strip, lstrip and rstrip remove.
Whitespace == {" ", "\t", "\n", "\r", "\f"}

RECURSIVE rstrip(_)
rstrip(s) ==
    IF Len(s) > 0 /\ Char(s, Len(s)) \in Whitespace
    THEN rstrip(SubSeq(s, 1, Len(s) - 1))
    ELSE s

RECURSIVE lstrip(_)
lstrip(s) ==
    IF Len(s) > 0 /\ Char(s, 1) \in Whitespace
    THEN lstrip(SubSeq(s, 2, Len(s)))
    ELSE s

strip(s) == lstrip(rstrip(s))

startswith(s, prefix) ==
    Len(s) >= Len(prefix) /\ SubSeq(s, 1, Len(prefix)) = prefix

\* s.split(sep, maxsplit) for a one-character sep: the list of parts; a
\* negative maxsplit puts no limit on the number of splits.
RECURSIVE SplitLoop(_, _, _, _, _)
SplitLoop(s, sep, maxsplit, i, part) ==
    IF i > Len(s) THEN <<part>>
    ELSE IF maxsplit = 0 THEN <<part \o SubSeq(s, i, Len(s))>>
    ELSE IF Char(s, i) = sep
         THEN <<part>> \o SplitLoop(s, sep, maxsplit - 1, i + 1, "")
         ELSE SplitLoop(s, sep, maxsplit, i + 1, part \o Char(s, i))

split(s, sep) == SplitLoop(s, sep, -1, 1, "")
split_max(s, sep, maxsplit) == SplitLoop(s, sep, maxsplit, 1, "")

\* sep.join(parts)
RECURSIVE join(_, _)
join(sep, parts) ==
    IF parts = <<>> THEN ""
    ELSE IF Len(parts) = 1 THEN parts[1]
    ELSE parts[1] \o sep \o join(sep, Tail(parts))

RECURSIVE DigitsValue(_, _)
DigitsValue(s, acc) ==
    IF s = "" THEN acc ELSE DigitsValue(SubSeq(s, 2, Len(s)), 10 * acc + DigitValue(Char(s, 1)))

AllDigits(s) == \A i \in 1..Len(s) : Char(s, i) \in Digits

\* int(text): surrounding whitespace is ignored, one sign is accepted, and
\* what remains must be decimal digits; <<n>>, or None for a ValueError.
\* (Underscores between digits, which int also accepts, are left out.)
int(text) ==
    LET body == strip(text)
        signed == Len(body) > 0 /\ Char(body, 1) \in {"+", "-"}
        digits == IF signed THEN SubSeq(body, 2, Len(body)) ELSE body
    IN IF digits = "" \/ ~AllDigits(digits) THEN None
       ELSE IF signed /\ Char(body, 1) = "-" THEN Some(0 - DigitsValue(digits, 0))
       ELSE Some(DigitsValue(digits, 0))

\* str(n)
RECURSIVE str(_)
str(n) ==
    IF n < 0 THEN "-" \o str(0 - n)
    ELSE IF n < 10 THEN DigitChar(n)
    ELSE str(n \div 10) \o DigitChar(n % 10)

\* s left as short as it is.
rjust_skipped(s, width, fill) == s

\* s.rjust(width, fill)
RECURSIVE rjust(_, _, _)
rjust(s, width, fill) == IF Len(s) >= width THEN s ELSE rjust(fill \o s, width, fill)

\* parse_time: <<hundredths>>, or None when a ValueError is raised.
parse_time(field) ==
    LET parts == split(field, ":")
    IN IF Len(parts) # 3 THEN None
       ELSE LET hours == int(parts[1])
                mins == int(parts[2])
                sh == split(parts[3], ".")
            IN IF hours = None \/ mins = None THEN None
               ELSE IF Len(sh) # 2 THEN None
               ELSE LET seconds == int(sh[1])
                        hundredths == int(sh[2])
                    IN IF seconds = None \/ hundredths = None THEN None
                       ELSE IF hours[1] < 0 \/ mins[1] < 0 \/ seconds[1] < 0 \/ hundredths[1] < 0
                            THEN None
                       ELSE Some(hundredths[1] + (seconds[1] * 100) + (mins[1] * 100 * 60)
                                 + (hours[1] * 100 * 60 * 60))

\* unparse_time without the zero padding of minutes, seconds and hundredths.
unparse_time_unpadded(hundredths) ==
    IF hundredths < 0 THEN None
    ELSE Some(str(hundredths \div (100 * 60 * 60)) \o ":"
              \o str((hundredths \div (100 * 60)) % 60) \o ":"
              \o str((hundredths \div 100) % 60) \o "."
              \o str(hundredths % 100))

\* unparse_time: <<text>>, or None when a ValueError is raised.
unparse_time(hundredths) ==
    IF hundredths < 0 THEN None
    ELSE LET unparse_hours == hundredths \div (100 * 60 * 60)
             unparse_mins == (hundredths \div (100 * 60)) % 60
             unparse_seconds == (hundredths \div 100) % 60
             unparse_hundredths == hundredths % 100
         IN Some(str(unparse_hours) \o ":"
                 \o rjust(str(unparse_mins), 2, "0") \o ":"
                 \o rjust(str(unparse_seconds), 2, "0") \o "."
                 \o rjust(str(unparse_hundredths), 2, "0"))

(***************************************************************************)
(* The TimeRanges state machine: one object, and the calls a client can    *)
(* make on it.                                                             *)
(***************************************************************************)
Self ==
    [_ranges |-> ranges, _units_per_second |-> units_per_second,
     _cached_cumulative_skip |-> cached_cumulative_skip]

Store(self) ==
    /\ ranges' = self._ranges
    /\ units_per_second' = self._units_per_second
    /\ cached_cumulative_skip' = self._cached_cumulative_skip

\* ret: the call made last, the arguments of a call that returns something,
\* the value it returned (val: integers; out: a list of ranges) and the
\* exception it raised.
Ret(op, args, val, out, exc) ==
    [op |-> op, args |-> args, val |-> val, out |-> out, exc |-> exc]

\* codec: the field given, the result of parse_time and that of unparse_time,
\* each None until it is there, and the step reached.
NoCodec == [pc |-> "idle", field |-> "", hundredths |-> None, text |-> None]

\* The states of the line state machine of parse and retime.
_STATE_SKIP_UNTIL_EVENTS == 1
_STATE_GET_FORMAT == 2
_STATE_GET_EVENTS == 3

\* rewriter: where the call is (pc), the lines of in_file and how many have
\* been read (pos), the text written to out_file, the locals state, format,
\* start_idx and end_idx, the exception that ended the call (raised), and
\* for each line read what was done with it (handled).
NoRewriter ==
    [pc |-> "idle", in_file |-> <<>>, pos |-> 0, out_file |-> "",
     state |-> _STATE_SKIP_UNTIL_EVENTS, format |-> None,
     start_idx |-> None, end_idx |-> None, raised |-> "", handled |-> <<>>]

\* parser: the locals of parse before its loop, with the file it reads
\* (pos: the lines read) and, for every line read, what was done with it.
NoParser ==
    [pc |-> "idle", in_file |-> <<>>, pos |-> 0, events |-> <<>>,
     state |-> _STATE_SKIP_UNTIL_EVENTS, format |-> None,
     start_idx |-> None, end_idx |-> None, text_idx |-> None,
     raised |-> "", handled |-> <<>>]

\* srs: the loop over the events in cli_srs.main and the loop over the jobs:
\*   screenclip: 'screenclip' is a column and a video input was probed;
\*   i: the events handled; rows: the rows written; jobs: the jobs listed;
\*   job_progress: the jobs called; log: the screenshots the media tool took.
NoSrs ==
    [pc |-> "idle", screenclip |-> FALSE, screenclip_path |-> None, i |-> 0,
     rows |-> <<>>, jobs |-> <<>>, job_progress |-> 0, log |-> <<>>]

\* writer: the locals of a filter-graph writer before its loop.
NoWriter ==
    [pc |-> "idle", kind |-> "", file_index |-> 0, stream_index |-> 0, pos |-> 0,
     total_streams |-> 0, total_concat_streams |-> 0, streams |-> <<>>,
     file |-> "", returned |-> None, raised |-> "",
     output_audio_stream |-> None]

\* manager: a MultiContextManager after __init__, outside a with statement.
\* accepted and released list the children in the order of the calls of
\* accept that returned and of the calls of __exit__ on a child.
NoManager ==
    [pc |-> "idle", _close_later |-> <<>>, errors |-> <<>>, raised |-> "",
     body_raised |-> FALSE, accepted |-> <<>>, released |-> <<>>]

\* The target paths handed to probe.
Paths == {"a.mkv", "b.mkv"}

\* prober: an FfprobeWrapper after __init__. _cached_results maps a path to
\* the result stored for it (None: not a key); a result is named by the
\* number of the subprocess run that produced it. started counts the
\* subprocess runs per path and stored those whose result was stored, calls
\* the calls of probe, and last describes the call made last.
NoProber ==
    [_cached_results |-> [p \in Paths |-> None],
     started |-> [p \in Paths |-> 0],
     stored |-> [p \in Paths |-> 0],
     runs |-> 0, calls |-> 0, all_allowed |-> TRUE,
     last |-> [target_path |-> "", allow_cache |-> TRUE, ran |-> FALSE,
               returned |-> None, raised |-> "",
               before |-> [p \in Paths |-> None]]]

\* cli: no command is running.
\*   args: "ok", or what is wrong with the arguments: "bad_early" is found
\*     before the output paths are checked, "bad_late" right after;
\*   media: the inputs with audio and video ("same": one file for both);
\*   subs: the subtitles input ("same": the media file, probed before);
\*   log: the subprocesses started and the other effects, in order;
\*   pending: the return or exception a finally clause or __exit__ holds up;
\*   status, how: the exit status of the process and what led to it.
\* A Subtitles object no call of modify_subtitles has been made on.
NoSubs ==
    [events |-> <<>>, pc |-> "idle", given |-> <<>>, keep_blank |-> FALSE,
     remove_containing |-> None, keep_containing |-> None, i |-> 0]

NoCli ==
    [command |-> "", pc |-> "idle", args |-> "ok", allow_overwrite |-> FALSE,
     output_exists |-> FALSE, output_subs_exists |-> FALSE,
     scratch_given |-> FALSE, media |-> "same", subs |-> "same",
     same_ext |-> TRUE, jobs |-> 0,
     log |-> <<>>, close_later |-> <<>>, created |-> 0, released |-> 0,
     failed_to_close |-> FALSE, filter_file |-> "absent",
     media_out |-> FALSE, subs_out |-> FALSE,
     pending |-> "", status |-> None, how |-> ""]

Times == 0..MaxTime
Pairs == {p \in Times \X Times : p[1] <= p[2]}
UpsValues == 1..MaxUps

RECURSIVE MaxEnd(_)
MaxEnd(rs) == IF rs = <<>> THEN 0 ELSE Max(rs[Len(rs)][2], MaxEnd(SubSeq(rs, 1, Len(rs) - 1)))
WithinBounds(self) == MaxEnd(self._ranges) <= MaxTime

RECURSIVE SeqsUpTo(_, _)
SeqsUpTo(S, n) ==
    IF n = 0 THEN {<<>>}
    ELSE LET shorter == SeqsUpTo(S, n - 1)
         IN shorter \cup {Append(q, x) : q \in {q \in shorter : Len(q) = n - 1}, x \in S}

\* The object is constructed by TimeRanges.from_unsorted(pairs, ups), which
\* for no pairs is TimeRanges.create_empty(ups).
Init ==
    /\ srs = NoSrs
    /\ parser = NoParser
    /\ subs = NoSubs
    /\ cli = NoCli
    /\ prober = NoProber
    /\ manager = NoManager
    /\ writer = NoWriter
    /\ \E pairs \in SeqsUpTo(Pairs, MaxUnsorted), ups \in UpsValues :
          LET self == from_unsorted(pairs, ups)
          IN /\ ranges = self._ranges
             /\ units_per_second = self._units_per_second
             /\ cached_cumulative_skip = self._cached_cumulative_skip
    /\ ret = Ret("from_unsorted", <<>>, <<>>, <<>>, "")
    /\ added = <<>>
    /\ codec = NoCodec
    /\ rewriter = NoRewriter

\* self.add(start, end)
Add(start, end) ==
    /\ Len(ranges) < MaxRanges
    /\ Store(add(Self, start, end))
    /\ ret' = Ret("add", <<>>, <<>>, <<>>, "")
    /\ UNCHANGED <<added, codec, rewriter, writer, manager, prober, cli, subs, parser, srs>>

\* self.add_padding(pad_start, pad_end, pad_ups)
AddPadding(pad_start, pad_end, pad_ups) ==
    LET after == add_padding(Self, pad_start, pad_end, pad_ups)
    IN /\ WithinBounds(after)
       /\ Store(after)
       /\ ret' = Ret("add_padding", <<>>, <<>>, <<>>, "")
       /\ UNCHANGED <<added, codec, rewriter, writer, manager, prober, cli, subs, parser, srs>>

\* self.set_units_per_second(ups)
SetUnitsPerSecond(ups) ==
    LET after == set_units_per_second(Self, ups)
    IN /\ WithinBounds(after)
       /\ Store(after)
       /\ ret' = Ret("set_units_per_second", <<>>, <<>>, <<>>, "")
       /\ UNCHANGED <<added, codec, rewriter, writer, manager, prober, cli, subs, parser, srs>>

\* r1 = self.with_units_per_second(a): self is left alone, ret holds r1
\* (val: its _units_per_second, out: its _ranges).
WithUnitsPerSecond(a) ==
    LET r1 == with_units_per_second(Self, a)
    IN /\ ret' = Ret("with_units_per_second", <<a>>, <<r1._units_per_second>>, r1._ranges, "")
       /\ UNCHANGED <<ranges, units_per_second, cached_cumulative_skip, added, codec, rewriter, writer, manager, prober, cli, subs, parser, srs>>

\* r2 = r1.with_units_per_second(b), for the r1 the last call returned.
WithUnitsPerSecondAgain(b) ==
    /\ ret.op = "with_units_per_second"
    /\ Len(ret.args) = 1
    /\ LET r2 == with_units_per_second(TimeRanges(ret.out, ret.val[1]), b)
       IN ret' = Ret("with_units_per_second", Append(ret.args, b),
                     <<r2._units_per_second>>, r2._ranges, "")
    /\ UNCHANGED <<ranges, units_per_second, cached_cumulative_skip, added, codec, rewriter, writer, manager, prober, cli, subs, parser, srs>>

\* self.get_cumulative_skip(idx)
GetCumulativeSkip(idx) ==
    LET r == get_cumulative_skip(Self, idx)
    IN /\ Store(r.self)
       /\ ret' = Ret("get_cumulative_skip", <<idx>>, r.val, <<>>, r.exc)
       /\ UNCHANGED <<added, codec, rewriter, writer, manager, prober, cli, subs, parser, srs>>

\* adjust_timing(sub_start, sub_end, self)
AdjustTiming(sub_start, sub_end) ==
    LET r == adjust_timing(sub_start, sub_end, Self)
    IN /\ Store(r.self)
       /\ ret' = Ret("adjust_timing", <<sub_start, sub_end>>, r.val, <<>>, r.exc)
       /\ UNCHANGED <<added, codec, rewriter, writer, manager, prober, cli, subs, parser, srs>>

Next ==
    \/ \E p \in Pairs : Add(p[1], p[2])
    \/ \E ps \in 0..MaxPad, pe \in 0..MaxPad, pu \in UpsValues : AddPadding(ps, pe, pu)
    \/ \E ups \in UpsValues : SetUnitsPerSecond(ups)
    \/ \E a \in UpsValues : WithUnitsPerSecond(a)
    \/ \E b \in UpsValues : WithUnitsPerSecondAgain(b)
    \/ \E idx \in -1..Len(ranges) : GetCumulativeSkip(idx)
    \/ \E p \in Pairs : AdjustTiming(p[1], p[2])

Spec == Init /\ [][Next]_vars

(***************************************************************************)
(* Building a TimeRanges with add alone: TimeRanges.create_empty, then up  *)
(* to MaxAdds calls of add, each pair remembered in added.                 *)
(***************************************************************************)
InitAdd ==
    /\ srs = NoSrs
    /\ parser = NoParser
    /\ subs = NoSubs
    /\ cli = NoCli
    /\ prober = NoProber
    /\ manager = NoManager
    /\ writer = NoWriter
    /\ ranges = <<>>
    /\ units_per_second = 1
    /\ cached_cumulative_skip = None
    /\ ret = Ret("create_empty", <<>>, <<>>, <<>>, "")
    /\ added = <<>>
    /\ codec = NoCodec
    /\ rewriter = NoRewriter

AddNext(start, end) ==
    /\ Len(added) < MaxAdds
    /\ Store(add(Self, start, end))
    /\ ret' = Ret("add", <<>>, <<>>, <<>>, "")
    /\ added' = Append(added, <<start, end>>)
    /\ UNCHANGED <<codec, rewriter, writer, manager, prober, cli, subs, parser, srs>>

NextAdd == \E p \in Pairs : AddNext(p[1], p[2])

SpecAdd == InitAdd /\ [][NextAdd]_vars

(***************************************************************************)
(* The time codec: a field of the form H:MM:SS.CC is parsed, and the       *)
(* number parsed is unparsed again.                                        *)
(***************************************************************************)
\* The digits the fields are written with.
FieldDigits == {"0", "5", "9"}
TwoDigits == {a \o b : a \in FieldDigits, b \in FieldDigits}

RECURSIVE DigitStrings(_)
DigitStrings(n) ==
    IF n = 0 THEN {""} ELSE {a \o b : a \in DigitStrings(n - 1), b \in FieldDigits}
HourStrings == UNION {DigitStrings(n) : n \in 1..MaxHourDigits}

TimeFields ==
    {h \o ":" \o mm \o ":" \o ss \o "." \o cc :
        h \in HourStrings, mm \in TwoDigits, ss \in TwoDigits, cc \in TwoDigits}

InitTime ==
    /\ srs = NoSrs
    /\ parser = NoParser
    /\ subs = NoSubs
    /\ cli = NoCli
    /\ prober = NoProber
    /\ manager = NoManager
    /\ writer = NoWriter
    /\ ranges = <<>>
    /\ units_per_second = 1
    /\ cached_cumulative_skip = None
    /\ ret = Ret("none", <<>>, <<>>, <<>>, "")
    /\ added = <<>>
    /\ \E x \in TimeFields :
          codec = [pc |-> "parse", field |-> x, hundredths |-> None, text |-> None]
    /\ rewriter = NoRewriter

\* n = parse_time(field)
ParseTime ==
    /\ codec.pc = "parse"
    /\ LET n == parse_time(codec.field)
       IN codec' = [codec EXCEPT !.hundredths = n,
                                 !.pc = IF n = None THEN "raised" ELSE "unparse"]
    /\ UNCHANGED <<ranges, units_per_second, cached_cumulative_skip, ret, added, rewriter, writer, manager, prober, cli, subs, parser, srs>>

\* text = unparse_time(n)
UnparseTime ==
    /\ codec.pc = "unparse"
    /\ LET x == unparse_time(codec.hundredths[1])
       IN codec' = [codec EXCEPT !.text = x,
                                 !.pc = IF x = None THEN "raised" ELSE "done"]
    /\ UNCHANGED <<ranges, units_per_second, cached_cumulative_skip, ret, added, rewriter, writer, manager, prober, cli, subs, parser, srs>>

NextTime == ParseTime \/ UnparseTime

SpecTime == InitTime /\ [][NextTime]_vars

(***************************************************************************)
(* The time codec the other way round: a number of hundredths is unparsed, *)
(* as retime does with the new times, and the text is parsed again.        *)
(***************************************************************************)
\* Hours of one digit, of two, and of more digits than the fields above.
UnparseHours == {0, 1, 10, 10 ^ MaxHourDigits}
UnparseSixtieths == {0, 9, 10, 59}
UnparseHundredths == {0, 9, 10, 99}

\* The numbers unparsed: every combination of the above, and negative ones.
UnparseInputs ==
    {((h * 60 + m) * 60 + s) * 100 + c :
        h \in UnparseHours, m \in UnparseSixtieths, s \in UnparseSixtieths,
        c \in UnparseHundredths}
      \cup {0 - 1, 0 - 100, 0 - 360000}

InitUnparse ==
    /\ srs = NoSrs
    /\ parser = NoParser
    /\ subs = NoSubs
    /\ cli = NoCli
    /\ prober = NoProber
    /\ manager = NoManager
    /\ writer = NoWriter
    /\ ranges = <<>>
    /\ units_per_second = 1
    /\ cached_cumulative_skip = None
    /\ ret = Ret("none", <<>>, <<>>, <<>>, "")
    /\ added = <<>>
    /\ \E n \in UnparseInputs :
          codec = [pc |-> "unparse_first", field |-> "", hundredths |-> Some(n),
                   text |-> None, back |-> None]
    /\ rewriter = NoRewriter

\* text = unparse_time(n)
UnparseFirst ==
    /\ codec.pc = "unparse_first"
    /\ LET x == unparse_time(codec.hundredths[1])
       IN codec' = [codec EXCEPT !.text = x,
                                 !.pc = IF x = None THEN "raised" ELSE "parse_back"]
    /\ UNCHANGED <<ranges, units_per_second, cached_cumulative_skip, ret, added, rewriter, writer, manager, prober, cli, subs, parser, srs>>

\* back = parse_time(text)
ParseBack ==
    /\ codec.pc = "parse_back"
    /\ LET n == parse_time(codec.text[1])
       IN codec' = [codec EXCEPT !.back = n,
                                 !.pc = IF n = None THEN "raised" ELSE "done"]
    /\ UNCHANGED <<ranges, units_per_second, cached_cumulative_skip, ret, added, rewriter, writer, manager, prober, cli, subs, parser, srs>>

NextUnparse == UnparseFirst \/ ParseBack

SpecUnparse == InitUnparse /\ [][NextUnparse]_vars

(***************************************************************************)
(* subtitles_ass.retime(in_file, out_file, time_ranges): the TimeRanges    *)
(* variables hold time_ranges, and every iteration of the loop over the    *)
(* lines of in_file is one step.                                           *)
(***************************************************************************)

\* list.index(x): the first position of x, counted from 0, or -1 where the
\* code raises ValueError.
RECURSIVE IndexFrom(_, _, _)
IndexFrom(seq, x, i) ==
    IF i >= Len(seq) THEN -1
    ELSE IF At(seq, i) = x THEN i
    ELSE IndexFrom(seq, x, i + 1)
index(seq, x) == IndexFrom(seq, x, 0)

\* [x.strip() for x in parts]
StripAll(parts) == [i \in 1..Len(parts) |-> strip(parts[i])]

\* What was done with one line: copied, retimed, dropped or error (the line
\* the call raised on); the text written for it; for a Dialogue line whose
\* times were parsed, the event (start, end), the new times and the fields.
Handled(kind, out, event, new, fields) ==
    [kind |-> kind, out |-> out, event |-> event, new |-> new, fields |-> fields]

\* out_file.write(text) while handling the current line, and on to the next.
Written(rw, text, h) ==
    [rw EXCEPT !.pos = @ + 1, !.out_file = @ \o text, !.handled = Append(@, h)]

\* continue without writing.
Skipped(rw, h) == [rw EXCEPT !.pos = @ + 1, !.handled = Append(@, h)]

\* raise exc while handling the current line.
Raise(rw, exc) ==
    [rw EXCEPT !.pos = @ + 1, !.pc = "raised", !.raised = exc,
               !.handled = Append(@, Handled("error", "", <<>>, <<>>, <<>>))]

\* ln = ln.rstrip() of the line the loop is at.
CurrentLine == rstrip(rewriter.in_file[rewriter.pos + 1])

AtLine(state) ==
    /\ rewriter.pc = "loop"
    /\ rewriter.pos < Len(rewriter.in_file)
    /\ rewriter.state = state

\* The call starts: time_ranges.with_units_per_second(100) builds a rescaled
\* clone, which is not assigned to anything; time_ranges itself is unchanged.
RetimeBegin ==
    /\ rewriter.pc = "begin"
    /\ rewriter' = [rewriter EXCEPT !.pc = "loop"]
    /\ UNCHANGED <<ranges, units_per_second, cached_cumulative_skip, ret, added, codec, writer, manager, prober, cli, subs, parser, srs>>

\* state == _STATE_SKIP_UNTIL_EVENTS
SkipUntilEvents ==
    /\ AtLine(_STATE_SKIP_UNTIL_EVENTS)
    /\ LET ln == CurrentLine
           rw == IF ln = "[Events]"
                 THEN [rewriter EXCEPT !.state = _STATE_GET_FORMAT]
                 ELSE rewriter
       IN rewriter' = Written(rw, ln \o "\n", Handled("copied", ln \o "\n", <<>>, <<>>, <<>>))
    /\ UNCHANGED <<ranges, units_per_second, cached_cumulative_skip, ret, added, codec, writer, manager, prober, cli, subs, parser, srs>>

\* state == _STATE_GET_FORMAT
GetFormat ==
    /\ AtLine(_STATE_GET_FORMAT)
    /\ LET ln == CurrentLine
           format == StripAll(split(SubSeq(ln, 8, Len(ln)), ","))
           end_idx == index(format, "End")
           start_idx == index(format, "Start")
       IN rewriter' =
            IF ~startswith(ln, "Format:") THEN Raise(rewriter, "ValueError")
            ELSE IF end_idx < 0 THEN Raise(rewriter, "ValueError")
            ELSE IF start_idx < 0 THEN Raise(rewriter, "ValueError")
            ELSE Written([rewriter EXCEPT !.format = Some(format),
                                          !.end_idx = Some(end_idx),
                                          !.start_idx = Some(start_idx),
                                          !.state = _STATE_GET_EVENTS],
                         ln \o "\n", Handled("copied", ln \o "\n", <<>>, <<>>, <<>>))
    /\ UNCHANGED <<ranges, units_per_second, cached_cumulative_skip, ret, added, codec, writer, manager, prober, cli, subs, parser, srs>>

\* state == _STATE_GET_EVENTS, for a line that is not a Dialogue line.
GetEventsOther ==
    /\ AtLine(_STATE_GET_EVENTS)
    /\ LET ln == CurrentLine
       IN /\ (ln = "" \/ ~startswith(ln, "Dialogue:"))
          /\ rewriter' =
               Written(IF ln = "" THEN [rewriter EXCEPT !.state = _STATE_SKIP_UNTIL_EVENTS]
                                  ELSE rewriter,
                       ln \o "\n", Handled("copied", ln \o "\n", <<>>, <<>>, <<>>))
    /\ UNCHANGED <<ranges, units_per_second, cached_cumulative_skip, ret, added, codec, writer, manager, prober, cli, subs, parser, srs>>

\* state == _STATE_GET_EVENTS, for a Dialogue line.
GetEventsDialogue ==
    /\ AtLine(_STATE_GET_EVENTS)
    /\ LET ln == CurrentLine
           format == rewriter.format[1]
           start_idx == rewriter.start_idx[1]
           end_idx == rewriter.end_idx[1]
           event == split_max(lstrip(SubSeq(ln, 10, Len(ln))), ",", Len(format) - 1)
           start == parse_time(At(event, start_idx))
           end == parse_time(At(event, end_idx))
           new_range == adjust_timing(start[1], end[1], Self)
           new_start == unparse_time(new_range.val[1])
           new_end == unparse_time(new_range.val[2])
           new_event == Replace(Replace(event, start_idx, new_start[1]), end_idx, new_end[1])
           text == "Dialogue: " \o join(",", new_event) \o "\n"
       IN /\ startswith(ln, "Dialogue:")
          /\ IF Len(event) # Len(format) \/ start = None \/ end = None
             THEN /\ rewriter' = Raise(rewriter, "ValueError")
                  /\ UNCHANGED <<ranges, units_per_second, cached_cumulative_skip>>
             ELSE /\ Store(new_range.self)
                  /\ rewriter' =
                       IF new_range.exc # "" THEN Raise(rewriter, new_range.exc)
                       ELSE IF new_range.val = None
                            THEN Skipped(rewriter,
                                         Handled("dropped", "", <<start[1], end[1]>>, <<>>, event))
                       ELSE IF new_start = None \/ new_end = None
                            THEN Raise(rewriter, "ValueError")
                       ELSE Written(rewriter, text,
                                    Handled("retimed", text, <<start[1], end[1]>>,
                                            new_range.val, event))
    /\ UNCHANGED <<ret, added, codec, writer, manager, prober, cli, subs, parser, srs>>

\* The file is exhausted: retime returns.
RetimeReturn ==
    /\ rewriter.pc = "loop"
    /\ rewriter.pos = Len(rewriter.in_file)
    /\ rewriter' = [rewriter EXCEPT !.pc = "end"]
    /\ UNCHANGED <<ranges, units_per_second, cached_cumulative_skip, ret, added, codec, writer, manager, prober, cli, subs, parser, srs>>

\* A time field of at most nine hundredths, and a Dialogue line in the format
\* Start, End, Text.
StampField(n) == "0:00:00.0" \o DigitChar(n)
DialogueLine(start, end, text) ==
    "Dialogue: " \o StampField(start) \o "," \o StampField(end) \o "," \o text \o "\n"

Stamps == 0..MaxStamp
StampPairs == {p \in Stamps \X Stamps : p[1] <= p[2]}

\* Files with two events: the [Events] header, a Format line and two Dialogue
\* lines whose text contains a comma.
EventTexts == <<"a, 1", "b, 2">>
EventFiles ==
    {<<"[Events]\n", "Format: Start, End, Text\n",
       DialogueLine(a[1], a[2], EventTexts[1]), DialogueLine(b[1], b[2], EventTexts[2])>> :
        a \in StampPairs, b \in StampPairs}

\* Files of arbitrary lines, some with trailing white space; only the last
\* line of a file can lack its line terminator.
LinePool ==
    {"Title: a \n", "\n", "[Events]\n", "Format: Start, End, Text\n",
     "Comment: c\t\n", "Dialogue: 0:00:00.00,0:00:00.02,hi\n", "Dialogue: 0:00:00.00\n",
     "[Fonts]"}
Terminated(line) == Len(line) > 0 /\ Char(line, Len(line)) = "\n"
LineFiles ==
    {f \in SeqsUpTo(LinePool, MaxLines) : \A i \in 1..(Len(f) - 1) : Terminated(f[i])}

\* The consolidated range lists with stamps from lo to MaxStamp.
RECURSIVE ConsolidatedLists(_)
ConsolidatedLists(lo) ==
    {<<>>} \cup UNION {{<<p>> \o rest : rest \in ConsolidatedLists(p[2] + 1)} :
                          p \in {q \in StampPairs : q[1] >= lo}}

\* The TimeRanges given to retime with a file of arbitrary lines, and the
\* units per second it can carry: those of the subtitles, or coarser ones.
LineFileRanges == <<<<0, 1>>, <<3, 3>>>>
RetimeUps == {50, 100}

\* retime is called with a file of arbitrary lines, or with a file of two
\* events and any consolidated TimeRanges in hundredths of a second, its
\* cache not built yet or, for a single range, left behind empty by add.
InitRetime ==
    /\ srs = NoSrs
    /\ parser = NoParser
    /\ subs = NoSubs
    /\ cli = NoCli
    /\ prober = NoProber
    /\ manager = NoManager
    /\ writer = NoWriter
    /\ ret = Ret("none", <<>>, <<>>, <<>>, "")
    /\ added = <<>>
    /\ codec = NoCodec
    /\ \/ /\ \E f \in LineFiles :
                rewriter = [NoRewriter EXCEPT !.pc = "begin", !.in_file = f]
          /\ ranges = LineFileRanges
          /\ units_per_second \in RetimeUps
          /\ cached_cumulative_skip = None
       \/ /\ \E f \in EventFiles :
                rewriter = [NoRewriter EXCEPT !.pc = "begin", !.in_file = f]
          /\ units_per_second = 100
          /\ ranges \in ConsolidatedLists(0)
          /\ cached_cumulative_skip \in
                (IF Len(ranges) = 1 THEN {None, Some(<<>>)} ELSE {None})

NextRetime ==
    \/ RetimeBegin
    \/ SkipUntilEvents
    \/ GetFormat
    \/ GetEventsOther
    \/ GetEventsDialogue
    \/ RetimeReturn

SpecRetime == InitRetime /\ [][NextRetime]_vars

(***************************************************************************)
(* ffmpeg_helpers.write_complex_filter_for_audio_trim and                  *)
(* write_complex_filter_for_video_trim, told apart by writer.kind: the     *)
(* TimeRanges variables hold the time ranges, and every iteration of the   *)
(* loop over the ranges is one step.                                       *)
(***************************************************************************)
Kinds == {"audio", "video"}

\* The default prefixes of the labels of trimmed and of concatenated streams.
temp_stream_prefix(kind) == IF kind = "audio" THEN "a" ELSE "v"
\* The prefix of the trimmed streams given to the concatenated ones too.
temp_concat_stream_prefix_same(kind) == temp_stream_prefix(kind)

temp_concat_stream_prefix(kind) == IF kind = "audio" THEN "ca" ELSE "cv"

\* The statement written for one range: input stream, trim filter, output label.
WriteTrim(kind, file_index, stream_index, time_range, this_out) ==
    "[" \o str(file_index) \o ":" \o str(stream_index) \o "]"
        \o (IF kind = "audio" THEN "atrim=" ELSE "trim=")
        \o "start_pts=" \o str(time_range[1]) \o ":"
        \o "end_pts=" \o str(time_range[2])
        \o (IF kind = "audio" THEN ",asetpts=PTS-STARTPTS" ELSE ",setpts=PTS-STARTPTS")
        \o "[" \o this_out \o "]" \o ";"

\* The statement written to concatenate two streams.
WriteConcat(kind, stream1, stream2, this_concat_out) ==
    "[" \o stream1 \o "]" \o "[" \o stream2 \o "]"
        \o (IF kind = "audio" THEN "concat=v=0:a=1" ELSE "concat")
        \o "[" \o this_concat_out \o "]" \o ";"

\* stream1 and stream2 taken the other way round.
PopPairSwapped(streams) == <<streams[Len(streams)], streams[Len(streams) - 1]>>

\* stream2 = streams.pop(); stream1 = streams.pop(): <<stream1, stream2>>
PopPair(streams) == <<streams[Len(streams) - 1], streams[Len(streams)]>>

\* The call starts: no ranges is an error.
FilterBegin ==
    /\ writer.pc = "begin"
    /\ writer' = IF Len(ranges) = 0
                 THEN [writer EXCEPT !.pc = "raised", !.raised = "ValueError"]
                 ELSE [writer EXCEPT !.pc = "loop"]
    /\ UNCHANGED <<ranges, units_per_second, cached_cumulative_skip, ret, added, codec, rewriter, manager, prober, cli, subs, parser, srs>>

\* One iteration of for time_range in time_ranges.
FilterRange ==
    /\ writer.pc = "loop"
    /\ writer.pos < Len(ranges)
    /\ LET time_range == ranges[writer.pos + 1]
           this_out == temp_stream_prefix(writer.kind) \o str(writer.total_streams)
           trimmed == writer.file \o WriteTrim(writer.kind, writer.file_index,
                                               writer.stream_index, time_range, this_out)
           streams == Append(writer.streams, this_out)
           this_concat_out ==
               temp_concat_stream_prefix(writer.kind) \o str(writer.total_concat_streams)
           pair == PopPair(streams)
       IN writer' =
            IF Len(streams) >= 2
            THEN [writer EXCEPT
                    !.pos = @ + 1,
                    !.total_streams = @ + 1,
                    !.total_concat_streams = @ + 1,
                    !.file = trimmed \o WriteConcat(writer.kind, pair[1], pair[2],
                                                    this_concat_out),
                    !.streams = Append(SubSeq(streams, 1, Len(streams) - 2),
                                       this_concat_out)]
            ELSE [writer EXCEPT
                    !.pos = @ + 1,
                    !.total_streams = @ + 1,
                    !.file = trimmed,
                    !.streams = streams]
    /\ UNCHANGED <<ranges, units_per_second, cached_cumulative_skip, ret, added, codec, rewriter, manager, prober, cli, subs, parser, srs>>

\* The ranges are exhausted: return streams[-1].
FilterReturn ==
    /\ writer.pc = "loop"
    /\ writer.pos = Len(ranges)
    /\ writer' = [writer EXCEPT !.pc = "returned",
                                !.returned = Some(At(writer.streams, -1))]
    /\ UNCHANGED <<ranges, units_per_second, cached_cumulative_skip, ret, added, codec, rewriter, manager, prober, cli, subs, parser, srs>>

\* A writer is called with a TimeRanges of stamps up to MaxStamp, which can be
\* empty, and the indices of an input file and of a stream in it.
InitFilter ==
    /\ srs = NoSrs
    /\ parser = NoParser
    /\ subs = NoSubs
    /\ cli = NoCli
    /\ prober = NoProber
    /\ manager = NoManager
    /\ ranges \in ConsolidatedLists(0)
    /\ units_per_second = 1
    /\ cached_cumulative_skip = None
    /\ ret = Ret("none", <<>>, <<>>, <<>>, "")
    /\ added = <<>>
    /\ codec = NoCodec
    /\ rewriter = NoRewriter
    /\ \E kind \in Kinds, file_index \in 0..1, stream_index \in 0..1 :
          writer = [NoWriter EXCEPT !.pc = "begin", !.kind = kind,
                                    !.file_index = file_index,
                                    !.stream_index = stream_index]

NextFilter ==
    \/ FilterBegin
    \/ FilterRange
    \/ FilterReturn

SpecFilter == InitFilter /\ [][NextFilter]_vars

\* main of the condense command: with an audio and a video stream, the audio
\* writer has returned output_audio_stream and the video writer is called
\* on the same file, with time ranges of as many ranges.
FilterVideoAfterAudio(file_index, stream_index) ==
    /\ writer.pc = "returned"
    /\ writer.kind = "audio"
    /\ writer' = [NoWriter EXCEPT !.pc = "begin", !.kind = "video",
                                  !.file_index = file_index,
                                  !.stream_index = stream_index,
                                  !.file = writer.file,
                                  !.output_audio_stream = writer.returned]
    /\ UNCHANGED <<ranges, units_per_second, cached_cumulative_skip, ret, added, codec, rewriter, manager, prober, cli, subs, parser, srs>>

NextGraph ==
    \/ FilterBegin
    \/ FilterRange
    \/ FilterReturn
    \/ \E file_index \in 0..1, stream_index \in 0..1 :
          FilterVideoAfterAudio(file_index, stream_index)

SpecGraph == InitFilter /\ [][NextGraph]_vars

(***************************************************************************)
(* multi_context_manager.MultiContextManager inside a with statement: the  *)
(* body calls accept, and leaving the body, normally or by an exception,   *)
(* calls __exit__, whose loop releases one child per step.                 *)
(***************************************************************************)
\* What a call of __enter__ or __exit__ on a child can do: return, raise an
\* Exception, or raise a BaseException that is not an Exception (such as
\* KeyboardInterrupt), which except Exception does not catch.
Outcomes == {"return", "Exception", "BaseException"}

\* The first child of the list instead of the last.
PopFirst(close_later) == <<Head(close_later), Tail(close_later)>>

\* x = self._close_later.pop(): <<x, the list afterwards>>
Pop(close_later) ==
    <<close_later[Len(close_later)], SubSeq(close_later, 1, Len(close_later) - 1)>>

\* with MultiContextManager() as deferred:
ManagerEnter ==
    /\ manager.pc = "idle"
    /\ manager' = [manager EXCEPT !.pc = "body"]
    /\ UNCHANGED <<ranges, units_per_second, cached_cumulative_skip, ret, added, codec, rewriter, writer, prober, cli, subs, parser, srs>>

\* deferred.accept(child) for a new child: child.__enter__() is called, and
\* the child is appended if that returns; an exception leaves the body.
Accept(outcome) ==
    /\ manager.pc = "body"
    /\ Len(manager.accepted) < MaxChildren
    /\ LET child == Len(manager.accepted) + 1
       IN manager' =
            IF outcome = "return"
            THEN [manager EXCEPT !._close_later = Append(@, child),
                                 !.accepted = Append(@, child)]
            ELSE [manager EXCEPT !.pc = "exit", !.body_raised = TRUE]
    /\ UNCHANGED <<ranges, units_per_second, cached_cumulative_skip, ret, added, codec, rewriter, writer, prober, cli, subs, parser, srs>>

\* The body ends, normally or by an exception: __exit__ is called.
BodyEnds(raises) ==
    /\ manager.pc = "body"
    /\ manager' = [manager EXCEPT !.pc = "exit", !.body_raised = raises]
    /\ UNCHANGED <<ranges, units_per_second, cached_cumulative_skip, ret, added, codec, rewriter, writer, prober, cli, subs, parser, srs>>

\* One iteration of while len(self._close_later) > 0.
Release(outcome) ==
    /\ manager.pc = "exit"
    /\ Len(manager._close_later) > 0
    /\ LET popped == Pop(manager._close_later)
           x == popped[1]
           m == [manager EXCEPT !._close_later = popped[2],
                                !.released = Append(@, x)]
       IN manager' =
            CASE outcome = "return" -> m
              [] outcome = "Exception" -> [m EXCEPT !.errors = Append(@, x)]
              [] OTHER -> [m EXCEPT !.pc = "raised", !.raised = "BaseException"]
    /\ UNCHANGED <<ranges, units_per_second, cached_cumulative_skip, ret, added, codec, rewriter, writer, prober, cli, subs, parser, srs>>

\* The loop is over: raise ExceptionGroup if there were errors, else return
\* None, which lets an exception of the body go on.
ExitEnds ==
    /\ manager.pc = "exit"
    /\ Len(manager._close_later) = 0
    /\ manager' =
         IF Len(manager.errors) > 0
         THEN [manager EXCEPT !.pc = "raised", !.raised = "ExceptionGroup"]
         ELSE [manager EXCEPT !.pc = "returned"]
    /\ UNCHANGED <<ranges, units_per_second, cached_cumulative_skip, ret, added, codec, rewriter, writer, prober, cli, subs, parser, srs>>

InitManager ==
    /\ srs = NoSrs
    /\ parser = NoParser
    /\ subs = NoSubs
    /\ cli = NoCli
    /\ prober = NoProber
    /\ ranges = <<>>
    /\ units_per_second = 1
    /\ cached_cumulative_skip = None
    /\ ret = Ret("none", <<>>, <<>>, <<>>, "")
    /\ added = <<>>
    /\ codec = NoCodec
    /\ rewriter = NoRewriter
    /\ writer = NoWriter
    /\ manager = NoManager

NextManager ==
    \/ ManagerEnter
    \/ \E outcome \in Outcomes : Accept(outcome)
    \/ \E raises \in BOOLEAN : BodyEnds(raises)
    \/ \E outcome \in Outcomes : Release(outcome)
    \/ ExitEnds

SpecManager == InitManager /\ [][NextManager]_vars

(***************************************************************************)
(* ffprobe_wrapper.FfprobeWrapper.probe: every call is one step.           *)
(***************************************************************************)
\* What the subprocess and the reading of its output can do: give a dict,
\* exit with a nonzero status (check=True), print what json.loads rejects, or
\* print JSON that is not a dict.
ProbeOutcomes == {"dict", "CalledProcessError", "JSONDecodeError", "TypeError"}

\* The cache never consulted.
CacheHitNever(cached_results, target_path, allow_cache) == FALSE

\* if allow_cache and target_path in self._cached_results
CacheHit(cached_results, target_path, allow_cache) ==
    allow_cache /\ cached_results[target_path] # None

\* probe(target_path, allow_cache)
Probe(target_path, allow_cache, outcome) ==
    /\ prober.calls < MaxProbes
    /\ LET called == [prober EXCEPT !.calls = @ + 1,
                                    !.all_allowed = @ /\ allow_cache]
           call == [target_path |-> target_path, allow_cache |-> allow_cache,
                    ran |-> FALSE, returned |-> None, raised |-> "",
                    before |-> prober._cached_results]
           result == prober.runs + 1
           started == [called EXCEPT !.runs = result, !.started[target_path] = @ + 1]
       IN prober' =
            IF CacheHit(prober._cached_results, target_path, allow_cache)
            THEN [called EXCEPT
                    !.last = [call EXCEPT !.returned = prober._cached_results[target_path]]]
            ELSE IF outcome = "dict"
            THEN [started EXCEPT
                    !._cached_results[target_path] = Some(result),
                    !.stored[target_path] = @ + 1,
                    !.last = [call EXCEPT !.ran = TRUE, !.returned = Some(result)]]
            ELSE [started EXCEPT
                    !.last = [call EXCEPT !.ran = TRUE, !.raised = outcome]]
    /\ UNCHANGED <<ranges, units_per_second, cached_cumulative_skip, ret, added, codec, rewriter, writer, manager, cli, subs, parser, srs>>

InitProber ==
    /\ srs = NoSrs
    /\ parser = NoParser
    /\ subs = NoSubs
    /\ cli = NoCli
    /\ ranges = <<>>
    /\ units_per_second = 1
    /\ cached_cumulative_skip = None
    /\ ret = Ret("none", <<>>, <<>>, <<>>, "")
    /\ added = <<>>
    /\ codec = NoCodec
    /\ rewriter = NoRewriter
    /\ writer = NoWriter
    /\ manager = NoManager
    /\ prober = NoProber

NextProber ==
    \E target_path \in Paths, allow_cache \in BOOLEAN, outcome \in ProbeOutcomes :
        Probe(target_path, allow_cache, outcome)

SpecProber == InitProber /\ [][NextProber]_vars

(***************************************************************************)
(* The commands: cli.main (condense) and cli_srs.main (srs), run from      *)
(* __main__. Every step that starts a subprocess or touches the file       *)
(* system is one action, and what it does to the rest is left out.         *)
(***************************************************************************)
\* What a step that can fail does.
StepOutcomes == {"return", "Exception"}

Logged(c, what, outcome) ==
    [c EXCEPT !.log = Append(@, [what |-> what, outcome |-> outcome,
                                 filter_file |-> c.filter_file,
                                 media_out |-> c.media_out])]

\* The process ends: main returned status, or raised what __main__ turns
\* into status 1 (UsageError) or the interpreter does (any other Exception).
Exit(c, status, how) == [c EXCEPT !.pc = "exited", !.status = Some(status), !.how = how]

\* A return or an exception that ends the process at once.
LeaveWithoutCleanup(c, pending) ==
    [c EXCEPT !.pc = "exited", !.pending = pending,
              !.status = Some(IF pending = "return 0" THEN 0 ELSE 1)]

\* Inside try (condense) or with (srs): a return or an exception goes
\* through the finally clause, resp. through MultiContextManager.__exit__.
Leave(c, pending) == [c EXCEPT !.pc = "cleanup", !.pending = pending]

\* One step that fails with an exception or goes on to the next.
Step(c, outcome, next) ==
    IF outcome = "return" THEN [c EXCEPT !.pc = next] ELSE Leave(c, "Exception")

\* ffprobe.probe(path): a subprocess, unless the path was probed before.
Probed(c, cached, outcome) == IF cached THEN c ELSE Logged(c, "probe", outcome)

CliFrame ==
    UNCHANGED <<ranges, units_per_second, cached_cumulative_skip, ret, added, codec, rewriter, writer, manager, prober, subs, parser, srs>>

AtStep(command, pc) == cli.command = command /\ cli.pc = pc

\* condense: the paths and the inputs are resolved.
CondenseResolve ==
    /\ AtStep("condense", "resolve")
    /\ cli' = IF cli.args = "bad_early" THEN Exit(cli, 1, "return")
              ELSE [cli EXCEPT !.pc = "check_outputs"]
    /\ CliFrame

\* condense: if not allow_overwrite, the two output paths must not exist.
CondenseCheckOutputs ==
    /\ AtStep("condense", "check_outputs")
    /\ cli' = IF ~cli.allow_overwrite /\ (cli.output_exists \/ cli.output_subs_exists)
              THEN Exit(cli, 1, "return")
              ELSE [cli EXCEPT !.pc = "padding"]
    /\ CliFrame

\* condense: the padding options are resolved.
CondensePadding ==
    /\ AtStep("condense", "padding")
    /\ cli' = IF cli.args = "bad_late" THEN Exit(cli, 1, "return")
              ELSE [cli EXCEPT !.pc = "scratch"]
    /\ CliFrame

\* condense: try is entered and the scratch directory resolved; a directory
\* created here is appended to close_later.
CondenseScratch(outcome) ==
    /\ AtStep("condense", "scratch")
    /\ cli' = IF cli.scratch_given THEN [cli EXCEPT !.pc = "probe_audio"]
              ELSE IF outcome = "return"
              THEN [Logged(cli, "mkdtemp", outcome) EXCEPT
                       !.pc = "probe_audio", !.created = @ + 1,
                       !.close_later = Append(@, "tempdir")]
              ELSE Leave(Logged(cli, "mkdtemp", outcome), "Exception")
    /\ CliFrame

\* condense: the audio input is probed.
CondenseProbeAudio(outcome) ==
    /\ AtStep("condense", "probe_audio")
    /\ cli' = IF cli.media = "video" THEN [cli EXCEPT !.pc = "probe_video"]
              ELSE Step(Probed(cli, FALSE, outcome), outcome, "probe_video")
    /\ CliFrame

\* condense: the video input is probed.
CondenseProbeVideo(outcome) ==
    /\ AtStep("condense", "probe_video")
    /\ cli' = IF cli.media = "audio" THEN [cli EXCEPT !.pc = "select"]
              ELSE IF cli.media = "same" THEN [cli EXCEPT !.pc = "select"]
              ELSE Step(Probed(cli, FALSE, outcome), outcome, "select")
    /\ CliFrame

\* condense: a stream is selected in each probe; none at all is an error.
CondenseSelect(found) ==
    /\ AtStep("condense", "select")
    /\ cli' = IF found THEN [cli EXCEPT !.pc = "extract"] ELSE Leave(cli, "return 1")
    /\ CliFrame

\* optionally_extract_subtitles: nothing for a subtitles file; else the
\* input is probed and its subtitle stream demuxed into the scratch directory.
Extracted(c, probe_outcome, demux_outcome, next) ==
    IF c.subs = "standalone" THEN [c EXCEPT !.pc = next]
    ELSE LET probed == Probed(c, c.subs = "same", probe_outcome)
         IN IF c.subs # "same" /\ probe_outcome # "return"
            THEN Leave(probed, "Exception")
            ELSE Step(Logged(probed, "demux", demux_outcome), demux_outcome, next)

\* condense: the subtitles are extracted if necessary.
CondenseExtract(probe_outcome, demux_outcome) ==
    /\ AtStep("condense", "extract")
    /\ cli' = Extracted(cli, probe_outcome, demux_outcome, "retime")
    /\ CliFrame

\* condense: the subtitles are parsed and modified, the time ranges are
\* built and padded, and the retimed subtitles written to the scratch
\* directory.
CondenseRetime(outcome) ==
    /\ AtStep("condense", "retime")
    /\ cli' = Step(Logged(cli, "retime", outcome), outcome, "write_filter")
    /\ CliFrame

\* condense: the filter-graph file is opened and the writers are called
\* inside with open(...); an exception closes the file on its way out.
CondenseWriteFilter(outcome) ==
    /\ AtStep("condense", "write_filter")
    /\ cli' = IF outcome = "return"
              THEN [cli EXCEPT !.pc = "close_filter", !.filter_file = "open"]
              ELSE Leave([cli EXCEPT !.filter_file = "closed, incomplete"], "Exception")
    /\ CliFrame

\* condense: the with block of the filter-graph file ends: the file is closed.
CondenseCloseFilter ==
    /\ AtStep("condense", "close_filter")
    /\ cli' = [cli EXCEPT !.pc = "apply_filter", !.filter_file = "closed"]
    /\ CliFrame

\* Where the run goes after the media tool, whatever it returned.
AfterFilterUnchecked(outcome) == "place_subs"

\* subprocess.run(..., check=True) in apply_complex_filter: a nonzero exit
\* status raises.
AfterFilter(outcome) == IF outcome = "return" THEN "place_subs" ELSE "cleanup"

\* condense: apply_complex_filter runs the media tool on the filter-graph
\* file, which writes the output media file.
CondenseApplyFilter(outcome) ==
    /\ AtStep("condense", "apply_filter")
    /\ LET ran == Logged(cli, "trim", outcome)
       IN cli' = IF AfterFilter(outcome) = "cleanup"
                 THEN Leave(ran, "Exception")
                 ELSE [ran EXCEPT !.pc = AfterFilter(outcome),
                                  !.media_out = (outcome = "return")]
    /\ CliFrame

\* condense: the retimed subtitles are moved to the output subtitle path, or
\* converted to it by the media tool if the extensions differ; return 0.
CondensePlaceSubs(outcome) ==
    /\ AtStep("condense", "place_subs")
    /\ LET placed == Logged(cli, IF cli.same_ext THEN "move" ELSE "demux", outcome)
       IN cli' = IF outcome = "return"
                 THEN Leave([placed EXCEPT !.subs_out = TRUE], "return 0")
                 ELSE Leave(placed, "Exception")
    /\ CliFrame

\* condense: one iteration of while len(close_later) > 0 in finally.
CondenseRelease(outcome) ==
    /\ AtStep("condense", "cleanup")
    /\ Len(cli.close_later) > 0
    /\ LET popped == Pop(cli.close_later)
           c == [Logged(cli, "release", outcome) EXCEPT
                    !.close_later = popped[2], !.released = @ + 1]
       IN cli' = CASE outcome = "return" -> c
                   [] outcome = "Exception" -> [c EXCEPT !.failed_to_close = TRUE]
                   [] OTHER -> Exit(c, 130, "BaseException")
    /\ CliFrame

\* condense: finally ends: return 1 if a release failed, else the return or
\* the exception held up goes on.
CondenseFinallyEnds ==
    /\ AtStep("condense", "cleanup")
    /\ Len(cli.close_later) = 0
    /\ cli' = IF cli.failed_to_close THEN Exit(cli, 1, "return")
              ELSE IF cli.pending = "return 0" THEN Exit(cli, 0, "return")
              ELSE IF cli.pending = "return 1" THEN Exit(cli, 1, "return")
              ELSE Exit(cli, 1, "Exception")
    /\ CliFrame

\* srs: the columns, the inputs and the output path are resolved.
SrsResolve ==
    /\ AtStep("srs", "resolve")
    /\ cli' = IF cli.args = "bad_early" THEN Exit(cli, 1, "UsageError")
              ELSE [cli EXCEPT !.pc = "check_outputs"]
    /\ CliFrame

\* A check of the output paths that finds none.
check_overwritten_outputs_never(existing) == ""

\* check_overwritten_outputs: OutputsExistError, a UsageError, if a path exists.
check_overwritten_outputs(existing) == IF existing THEN "UsageError" ELSE ""

\* srs: if not allow_overwite, the output path must not exist.
SrsCheckOutputs ==
    /\ AtStep("srs", "check_outputs")
    /\ cli' = IF ~cli.allow_overwrite /\ check_overwritten_outputs(cli.output_exists) # ""
              THEN Exit(cli, 1, check_overwritten_outputs(cli.output_exists))
              ELSE [cli EXCEPT !.pc = "delimiter"]
    /\ CliFrame

\* srs: the delimiter and the media directory are resolved.
SrsDelimiter ==
    /\ AtStep("srs", "delimiter")
    /\ cli' = IF cli.args = "bad_late" THEN Exit(cli, 1, "UsageError")
              ELSE [cli EXCEPT !.pc = "probe_video"]
    /\ CliFrame

\* srs: the video input is probed, outside any with or try.
SrsProbeVideo(outcome) ==
    /\ AtStep("srs", "probe_video")
    /\ cli' = IF cli.media = "audio" THEN [cli EXCEPT !.pc = "probe_audio"]
              ELSE IF outcome = "return"
              THEN [Probed(cli, FALSE, outcome) EXCEPT !.pc = "probe_audio"]
              ELSE Exit(Probed(cli, FALSE, outcome), 1, "Exception")
    /\ CliFrame

\* srs: the audio input is probed.
SrsProbeAudio(outcome) ==
    /\ AtStep("srs", "probe_audio")
    /\ cli' = IF cli.media \in {"video", "same"} THEN [cli EXCEPT !.pc = "scratch"]
              ELSE IF outcome = "return"
              THEN [Probed(cli, FALSE, outcome) EXCEPT !.pc = "scratch"]
              ELSE Exit(Probed(cli, FALSE, outcome), 1, "Exception")
    /\ CliFrame

\* srs: with MultiContextManager() is entered and the scratch directory
\* resolved; a directory created here is accepted by the manager.
SrsScratch(outcome) ==
    /\ AtStep("srs", "scratch")
    /\ cli' = IF cli.scratch_given THEN [cli EXCEPT !.pc = "extract"]
              ELSE IF outcome = "return"
              THEN [Logged(cli, "mkdtemp", outcome) EXCEPT
                       !.pc = "extract", !.created = @ + 1,
                       !.close_later = Append(@, "tempdir")]
              ELSE Leave(Logged(cli, "mkdtemp", outcome), "Exception")
    /\ CliFrame

\* srs: the subtitles are extracted if necessary.
SrsExtract(probe_outcome, demux_outcome) ==
    /\ AtStep("srs", "extract")
    /\ cli' = Extracted(cli, probe_outcome, demux_outcome, "parse")
    /\ CliFrame

\* srs: the subtitles are parsed and the prefix of the file names resolved.
SrsParse(outcome) ==
    /\ AtStep("srs", "parse")
    /\ cli' = Step(cli, outcome, "rows")
    /\ CliFrame

\* srs: the export file is written, one row per event, and the jobs listed.
SrsWriteRows(outcome) ==
    /\ AtStep("srs", "rows")
    /\ cli' = Step(Logged(cli, "export", outcome), outcome, "jobs")
    /\ CliFrame

\* srs: one job is run: a screenshot taken by the media tool, unless the
\* file of the screenshot exists.
SrsJob(exists, outcome) ==
    /\ AtStep("srs", "jobs")
    /\ cli.jobs > 0
    /\ cli' = IF exists THEN [cli EXCEPT !.jobs = @ - 1]
              ELSE Step([Logged(cli, "screenshot", outcome) EXCEPT !.jobs = @ - 1],
                        outcome, "jobs")
    /\ CliFrame

\* srs: the jobs are done: the with block ends.
SrsBodyEnds ==
    /\ AtStep("srs", "jobs")
    /\ cli.jobs = 0
    /\ cli' = Leave(cli, "return 0")
    /\ CliFrame

\* srs: one iteration of the loop of MultiContextManager.__exit__.
SrsRelease(outcome) ==
    /\ AtStep("srs", "cleanup")
    /\ Len(cli.close_later) > 0
    /\ LET popped == Pop(cli.close_later)
           c == [Logged(cli, "release", outcome) EXCEPT
                    !.close_later = popped[2], !.released = @ + 1]
       IN cli' = CASE outcome = "return" -> c
                   [] outcome = "Exception" -> [c EXCEPT !.failed_to_close = TRUE]
                   [] OTHER -> Exit(c, 130, "BaseException")
    /\ CliFrame

\* srs: __exit__ ends: ExceptionGroup if a release failed, else the
\* exception of the body goes on, or main returns 0.
SrsExitEnds ==
    /\ AtStep("srs", "cleanup")
    /\ Len(cli.close_later) = 0
    /\ cli' = IF cli.failed_to_close THEN Exit(cli, 1, "ExceptionGroup")
              ELSE IF cli.pending = "return 0" THEN Exit(cli, 0, "return")
              ELSE Exit(cli, 1, "Exception")
    /\ CliFrame

\* A command is run with some arguments, in some state of the file system.
InitCli ==
    /\ srs = NoSrs
    /\ parser = NoParser
    /\ subs = NoSubs
    /\ ranges = <<>>
    /\ units_per_second = 1
    /\ cached_cumulative_skip = None
    /\ ret = Ret("none", <<>>, <<>>, <<>>, "")
    /\ added = <<>>
    /\ codec = NoCodec
    /\ rewriter = NoRewriter
    /\ writer = NoWriter
    /\ manager = NoManager
    /\ prober = NoProber
    /\ \E command \in {"condense", "srs"},
          args \in {"ok", "bad_early", "bad_late"},
          allow_overwrite \in BOOLEAN, output_exists \in BOOLEAN,
          output_subs_exists \in BOOLEAN, scratch_given \in BOOLEAN,
          media \in {"audio", "video", "both", "same"},
          subs_input \in {"standalone", "container", "same"},
          same_ext \in BOOLEAN, jobs \in 0..MaxJobs :
          /\ command = "condense" => jobs = 0
          /\ command = "srs" => (~output_subs_exists /\ same_ext)
          /\ cli = [NoCli EXCEPT
                      !.command = command, !.pc = "resolve", !.args = args,
                      !.allow_overwrite = allow_overwrite,
                      !.output_exists = output_exists,
                      !.output_subs_exists = output_subs_exists,
                      !.scratch_given = scratch_given,
                      !.media = media, !.subs = subs_input,
                      !.same_ext = same_ext, !.jobs = jobs]

NextCli ==
    \/ CondenseResolve
    \/ CondenseCheckOutputs
    \/ CondensePadding
    \/ \E outcome \in StepOutcomes : CondenseScratch(outcome)
    \/ \E outcome \in StepOutcomes : CondenseProbeAudio(outcome)
    \/ \E outcome \in StepOutcomes : CondenseProbeVideo(outcome)
    \/ \E found \in BOOLEAN : CondenseSelect(found)
    \/ \E probe_outcome \in StepOutcomes, demux_outcome \in StepOutcomes :
          CondenseExtract(probe_outcome, demux_outcome)
    \/ \E outcome \in StepOutcomes : CondenseRetime(outcome)
    \/ \E outcome \in StepOutcomes : CondenseWriteFilter(outcome)
    \/ CondenseCloseFilter
    \/ \E outcome \in StepOutcomes : CondenseApplyFilter(outcome)
    \/ \E outcome \in StepOutcomes : CondensePlaceSubs(outcome)
    \/ \E outcome \in Outcomes : CondenseRelease(outcome)
    \/ CondenseFinallyEnds
    \/ SrsResolve
    \/ SrsCheckOutputs
    \/ SrsDelimiter
    \/ \E outcome \in StepOutcomes : SrsProbeVideo(outcome)
    \/ \E outcome \in StepOutcomes : SrsProbeAudio(outcome)
    \/ \E outcome \in StepOutcomes : SrsScratch(outcome)
    \/ \E probe_outcome \in StepOutcomes, demux_outcome \in StepOutcomes :
          SrsExtract(probe_outcome, demux_outcome)
    \/ \E outcome \in StepOutcomes : SrsParse(outcome)
    \/ \E outcome \in StepOutcomes : SrsWriteRows(outcome)
    \/ \E exists \in BOOLEAN, outcome \in StepOutcomes : SrsJob(exists, outcome)
    \/ SrsBodyEnds
    \/ \E outcome \in Outcomes : SrsRelease(outcome)
    \/ SrsExitEnds

SpecCli == InitCli /\ [][NextCli]_vars

(***************************************************************************)
(* modify_subtitles(subs, keep_blank, remove_containing, keep_containing)  *)
(* and Subtitles.filter_events.                                            *)
(***************************************************************************)
\* x in s, decided at the start of s only.
ContainsAtStart(x, s) == Len(x) <= Len(s) /\ SubSeq(s, 1, Len(x)) = x

\* x in s, for two strings.
Contains(x, s) ==
    \E k \in 0..(Len(s) - Len(x)) : SubSeq(s, k + 1, k + Len(x)) = x

\* Subtitles.filter_events: [x for x in self.events if test(x)].
filter_events(events, test(_)) == SelectSeq(events, test)

SubtitlesEvent(start, end, raw_text, plain_text) ==
    [start |-> start, end |-> end, raw_text |-> raw_text, plain_text |-> plain_text]

\* if not keep_blank: the events whose stripped text is empty are removed.
ModifyBlank ==
    /\ subs.pc = "blank"
    /\ subs' = [subs EXCEPT
                 !.events = IF ~subs.keep_blank
                            THEN filter_events(@, LAMBDA e : Len(strip(e.plain_text)) # 0)
                            ELSE @,
                 !.pc = "remove", !.i = 0]
    /\ UNCHANGED <<ranges, units_per_second, cached_cumulative_skip, ret, added, codec, rewriter, writer, manager, prober, cli, parser, srs>>

\* for x in remove_containing: one iteration.
ModifyRemove ==
    /\ subs.pc = "remove"
    /\ subs.remove_containing # None
    /\ subs.i < Len(subs.remove_containing[1])
    /\ LET x == subs.remove_containing[1][subs.i + 1]
       IN subs' = [subs EXCEPT
                     !.events = filter_events(@, LAMBDA e : ~Contains(x, e.plain_text)),
                     !.i = @ + 1]
    /\ UNCHANGED <<ranges, units_per_second, cached_cumulative_skip, ret, added, codec, rewriter, writer, manager, prober, cli, parser, srs>>

\* remove_containing is None, or its loop ends.
ModifyRemoveEnds ==
    /\ subs.pc = "remove"
    /\ subs.remove_containing # None => subs.i = Len(subs.remove_containing[1])
    /\ subs' = [subs EXCEPT !.pc = "keep", !.i = 0]
    /\ UNCHANGED <<ranges, units_per_second, cached_cumulative_skip, ret, added, codec, rewriter, writer, manager, prober, cli, parser, srs>>

\* for x in keep_containing: one iteration.
ModifyKeep ==
    /\ subs.pc = "keep"
    /\ subs.keep_containing # None
    /\ subs.i < Len(subs.keep_containing[1])
    /\ LET x == subs.keep_containing[1][subs.i + 1]
       IN subs' = [subs EXCEPT
                     !.events = filter_events(@, LAMBDA e : Contains(x, e.plain_text)),
                     !.i = @ + 1]
    /\ UNCHANGED <<ranges, units_per_second, cached_cumulative_skip, ret, added, codec, rewriter, writer, manager, prober, cli, parser, srs>>

\* keep_containing is None, or its loop ends: modify_subtitles returns.
ModifyReturn ==
    /\ subs.pc = "keep"
    /\ subs.keep_containing # None => subs.i = Len(subs.keep_containing[1])
    /\ subs' = [subs EXCEPT !.pc = "returned", !.i = 0]
    /\ UNCHANGED <<ranges, units_per_second, cached_cumulative_skip, ret, added, codec, rewriter, writer, manager, prober, cli, parser, srs>>

\* The texts of the events, the strings looked for, and the lists of them.
PlainTexts == {"", " ", "ba", "b"}

Needles == {"", "a"}

NeedleLists == {None} \cup {Some(l) : l \in SeqsUpTo(Needles, MaxNeedles)}

\* Events in the order of the file, each with a raw text of its own.
EventLists ==
    {[k \in 1..Len(texts) |-> SubtitlesEvent(k - 1, k, texts[k] \o "\\N", texts[k])] :
        texts \in SeqsUpTo(PlainTexts, MaxEvents)}

\* modify_subtitles is called on a Subtitles object.
InitModify ==
    /\ srs = NoSrs
    /\ parser = NoParser
    /\ ranges = <<>>
    /\ units_per_second = 1
    /\ cached_cumulative_skip = None
    /\ ret = Ret("none", <<>>, <<>>, <<>>, "")
    /\ added = <<>>
    /\ codec = NoCodec
    /\ rewriter = NoRewriter
    /\ writer = NoWriter
    /\ manager = NoManager
    /\ prober = NoProber
    /\ cli = NoCli
    /\ \E events \in EventLists, keep_blank \in BOOLEAN,
          remove_containing \in NeedleLists, keep_containing \in NeedleLists :
          subs = [NoSubs EXCEPT
                    !.events = events, !.given = events, !.pc = "blank",
                    !.keep_blank = keep_blank,
                    !.remove_containing = remove_containing,
                    !.keep_containing = keep_containing]

NextModify ==
    \/ ModifyBlank
    \/ ModifyRemove
    \/ ModifyRemoveEnds
    \/ ModifyKeep
    \/ ModifyReturn

SpecModify == InitModify /\ [][NextModify]_vars

(***************************************************************************)
(* The time ranges of a condense run: subs_time_ranges built from the      *)
(* events and padded, audio_time_ranges and video_time_ranges derived from *)
(* it for the filter-graph writers.                                        *)
(***************************************************************************)
\* Subtitles.event_units_per_second of parsed subtitles, and pad_ups.
event_units_per_second == 100

\* FfprobeStream.get_units_per_second(): the reciprocal of the time base,
\* such as 1/25, 1/100 or 1/1000.
StreamUps == {25, 100, 1000}

\* subs_time_ranges = TimeRanges.from_unsorted([(x.start, x.end) ...], 100)
InitRanges ==
    /\ srs = NoSrs
    /\ parser = NoParser
    /\ subs = NoSubs
    /\ cli = NoCli
    /\ prober = NoProber
    /\ manager = NoManager
    /\ writer = NoWriter
    /\ \E pairs \in SeqsUpTo(Pairs, MaxUnsorted) :
          LET self == from_unsorted(pairs, event_units_per_second)
          IN /\ ranges = self._ranges
             /\ units_per_second = self._units_per_second
             /\ cached_cumulative_skip = self._cached_cumulative_skip
    /\ ret = Ret("from_unsorted", <<>>, <<>>, <<>>, "")
    /\ added = <<>>
    /\ codec = NoCodec
    /\ rewriter = NoRewriter

\* subs_time_ranges.add_padding(pad_start, pad_end, pad_ups=100)
RangesPadded(pad_start, pad_end) ==
    /\ ret.op = "from_unsorted"
    /\ Store(add_padding(Self, pad_start, pad_end, event_units_per_second))
    /\ ret' = Ret("add_padding", <<pad_start, pad_end>>, <<>>, <<>>, "")
    /\ UNCHANGED <<added, codec, rewriter, writer, manager, prober, cli, subs, parser, srs>>

\* audio_time_ranges = subs_time_ranges.with_units_per_second(
\*     audio_stream.get_units_per_second())
RangesForAudio(ups) ==
    /\ ret.op = "add_padding"
    /\ LET r == with_units_per_second(Self, ups)
       IN ret' = Ret("audio_time_ranges", <<ups>>, <<r._units_per_second>>, r._ranges, "")
    /\ UNCHANGED <<ranges, units_per_second, cached_cumulative_skip, added, codec, rewriter, writer, manager, prober, cli, subs, parser, srs>>

\* video_time_ranges = subs_time_ranges.with_units_per_second(
\*     video_stream.get_units_per_second()), with or without an audio stream.
RangesForVideo(ups) ==
    /\ ret.op \in {"add_padding", "audio_time_ranges"}
    /\ LET r == with_units_per_second(Self, ups)
       IN ret' = Ret("video_time_ranges", <<ups>>, <<r._units_per_second>>, r._ranges, "")
    /\ UNCHANGED <<ranges, units_per_second, cached_cumulative_skip, added, codec, rewriter, writer, manager, prober, cli, subs, parser, srs>>

NextRanges ==
    \/ \E pad_start \in 0..MaxPad, pad_end \in 0..MaxPad : RangesPadded(pad_start, pad_end)
    \/ \E ups \in StreamUps : RangesForAudio(ups)
    \/ \E ups \in StreamUps : RangesForVideo(ups)

SpecRanges == InitRanges /\ [][NextRanges]_vars

(***************************************************************************)
(* Rescaling to any units per second, zero and negative ones included.     *)
(***************************************************************************)
\* math.isnan(factor) or math.isinf(factor), for factor = ups / old with two
\* ints, old nonzero: the quotient of two ints is a finite float.
bad_factor(ups, old) == FALSE

\* What set_units_per_second(ups) raises.
set_units_per_second_raises(self, ups) ==
    IF self._units_per_second = ups THEN ""
    ELSE IF bad_factor(ups, self._units_per_second) THEN "ValueError"
    ELSE ""

RescaleUps == (0 - 1)..MaxUps

\* Every start and end is within the times the model follows.
RescaleWithin(self) ==
    \A i \in 1..Len(self._ranges) :
        /\ 0 - MaxTime <= self._ranges[i][1] /\ self._ranges[i][1] <= MaxTime
        /\ 0 - MaxTime <= self._ranges[i][2] /\ self._ranges[i][2] <= MaxTime

\* self.set_units_per_second(ups), for any int ups; ret keeps the object as
\* it was before the call (val: its units per second and cache, out: its
\* ranges).
RescaleInPlace(ups) ==
    LET exc == set_units_per_second_raises(Self, ups)
        after == IF exc = "" THEN set_units_per_second(Self, ups) ELSE Self
    IN /\ RescaleWithin(after)
       /\ Store(after)
       /\ ret' = Ret("set_units_per_second", <<ups>>,
                     <<units_per_second, cached_cumulative_skip>>, ranges, exc)
       /\ UNCHANGED <<added, codec, rewriter, writer, manager, prober, cli, subs, parser, srs>>

\* self.with_units_per_second(ups), for any int ups: self is left alone, ret
\* holds what is returned (val: its units per second, out: its ranges).
RescaleClone(ups) ==
    LET exc == set_units_per_second_raises(clone(Self), ups)
        r == IF exc = "" THEN with_units_per_second(Self, ups) ELSE Self
    IN /\ ret' = Ret("with_units_per_second", <<ups>>, <<r._units_per_second>>,
                     IF exc = "" THEN r._ranges ELSE <<>>, exc)
       /\ UNCHANGED <<ranges, units_per_second, cached_cumulative_skip, added, codec, rewriter, writer, manager, prober, cli, subs, parser, srs>>

\* self.get_cumulative_skip(idx) before a rescaling, which fills the cache.
RescaleFillCache(idx) ==
    /\ ret.op = "from_unsorted"
    /\ LET r == get_cumulative_skip(Self, idx)
       IN /\ Store(r.self)
          /\ ret' = Ret("from_unsorted", <<>>, <<>>, <<>>, "")
    /\ UNCHANGED <<added, codec, rewriter, writer, manager, prober, cli, subs, parser, srs>>

NextRescale ==
    \/ \E ups \in RescaleUps : RescaleInPlace(ups)
    \/ \E ups \in RescaleUps : RescaleClone(ups)
    \/ \E idx \in 0..(MaxRanges - 1) : RescaleFillCache(idx)

SpecRescale == Init /\ [][NextRescale]_vars

(***************************************************************************)
(* Padding by any amounts, negative ones included.                         *)
(***************************************************************************)
\* What add_padding(pad_start, pad_end, pad_ups) raises, for ints and a
\* positive pad_ups: the method has no raise statement and tests no sign.
add_padding_raises(self, pad_start, pad_end, pad_ups) == ""

Pads == (0 - MaxPad)..MaxPad

\* self.add_padding(pad_start, pad_end, pad_ups), for any int pads, on an
\* object as from_unsorted built it; ret keeps the object as it was before
\* the call (val: its units per second and cache, out: its ranges).
PadAny(pad_start, pad_end, pad_ups) ==
    LET exc == add_padding_raises(Self, pad_start, pad_end, pad_ups)
        after == IF exc = "" THEN add_padding(Self, pad_start, pad_end, pad_ups) ELSE Self
    IN /\ ret.op = "from_unsorted"
       /\ Store(after)
       /\ ret' = Ret("add_padding", <<pad_start, pad_end, pad_ups>>,
                     <<units_per_second, cached_cumulative_skip>>, ranges, exc)
       /\ UNCHANGED <<added, codec, rewriter, writer, manager, prober, cli, subs, parser, srs>>

NextPad ==
    \/ \E pad_start \in Pads, pad_end \in Pads, pad_ups \in UpsValues :
          PadAny(pad_start, pad_end, pad_ups)
    \/ \E idx \in 0..(MaxRanges - 1) : RescaleFillCache(idx)

SpecPad == Init /\ [][NextPad]_vars

(***************************************************************************)
(* get_index on a TimeRanges built by from_unsorted and add.               *)
(***************************************************************************)
\* self.get_index(start), for any int start.
GetIndex(start) ==
    /\ ret' = Ret("get_index", <<start>>, <<get_index(Self, start)>>, <<>>, "")
    /\ UNCHANGED <<ranges, units_per_second, cached_cumulative_skip, added, codec, rewriter, writer, manager, prober, cli, subs, parser, srs>>

NextIndex ==
    \/ \E start \in Times, end \in Times : start <= end /\ Add(start, end)
    \/ \E start \in (0 - 1)..(MaxTime + 1) : GetIndex(start)

SpecIndex == Init /\ [][NextIndex]_vars

(***************************************************************************)
(* subtitles_ass.parse(file), and parse and retime reading the same file.  *)
(***************************************************************************)
\* escape_to_plain_text: a backslash followed by n or N becomes a new line.
RECURSIVE EscapeFrom(_, _)
EscapeFrom(text, i) ==
    IF ~(i < Len(text)) THEN ""
    ELSE IF /\ Char(text, i + 1) = "\\"
            /\ i + 1 < Len(text)
            /\ Char(text, i + 2) \in {"n", "N"}
         THEN "\n" \o EscapeFrom(text, i + 2)
         ELSE Char(text, i + 1) \o EscapeFrom(text, i + 1)

escape_to_plain_text(text) == EscapeFrom(text, 0)

\* The line was read and nothing else done: continue.
ParseSkipped(ps, kind) ==
    [ps EXCEPT !.pos = @ + 1, !.handled = Append(@, [kind |-> kind, event |-> <<>>])]

\* raise exc while handling the current line.
ParseRaise(ps, exc) ==
    [ps EXCEPT !.pos = @ + 1, !.pc = "raised", !.raised = exc,
               !.handled = Append(@, [kind |-> "error", event |-> <<>>])]

\* ln = ln.rstrip() of the line the loop of parse is at.
ParseCurrentLine == rstrip(parser.in_file[parser.pos + 1])

ParseAtLine(state) ==
    /\ parser.pc = "loop"
    /\ parser.pos < Len(parser.in_file)
    /\ parser.state = state

\* parse, state == _STATE_SKIP_UNTIL_EVENTS
ParseSkipUntilEvents ==
    /\ ParseAtLine(_STATE_SKIP_UNTIL_EVENTS)
    /\ parser' = ParseSkipped(IF ParseCurrentLine = "[Events]"
                              THEN [parser EXCEPT !.state = _STATE_GET_FORMAT]
                              ELSE parser, "skipped")
    /\ UNCHANGED <<ranges, units_per_second, cached_cumulative_skip, ret, added, codec, rewriter, writer, manager, prober, cli, subs, srs>>

\* parse, state == _STATE_GET_FORMAT
ParseGetFormat ==
    /\ ParseAtLine(_STATE_GET_FORMAT)
    /\ LET ln == ParseCurrentLine
           format == StripAll(split(SubSeq(ln, 8, Len(ln)), ","))
           end_idx == index(format, "End")
           start_idx == index(format, "Start")
           text_idx == index(format, "Text")
       IN parser' =
            IF ~startswith(ln, "Format:") THEN ParseRaise(parser, "ValueError")
            ELSE IF end_idx < 0 THEN ParseRaise(parser, "ValueError")
            ELSE IF start_idx < 0 THEN ParseRaise(parser, "ValueError")
            ELSE IF text_idx < 0 THEN ParseRaise(parser, "ValueError")
            ELSE IF text_idx # Len(format) - 1 THEN ParseRaise(parser, "ValueError")
            ELSE ParseSkipped([parser EXCEPT !.format = Some(format),
                                             !.end_idx = Some(end_idx),
                                             !.start_idx = Some(start_idx),
                                             !.text_idx = Some(text_idx),
                                             !.state = _STATE_GET_EVENTS], "skipped")
    /\ UNCHANGED <<ranges, units_per_second, cached_cumulative_skip, ret, added, codec, rewriter, writer, manager, prober, cli, subs, srs>>

\* parse, state == _STATE_GET_EVENTS, for a line that is not a Dialogue line.
ParseGetEventsOther ==
    /\ ParseAtLine(_STATE_GET_EVENTS)
    /\ LET ln == ParseCurrentLine
       IN /\ (ln = "" \/ ~startswith(ln, "Dialogue:"))
          /\ parser' = ParseSkipped(IF ln = ""
                                    THEN [parser EXCEPT !.state = _STATE_SKIP_UNTIL_EVENTS]
                                    ELSE parser, "skipped")
    /\ UNCHANGED <<ranges, units_per_second, cached_cumulative_skip, ret, added, codec, rewriter, writer, manager, prober, cli, subs, srs>>

\* parse, state == _STATE_GET_EVENTS, for a Dialogue line.
ParseGetEventsDialogue ==
    /\ ParseAtLine(_STATE_GET_EVENTS)
    /\ LET ln == ParseCurrentLine
           format == parser.format[1]
           event == split_max(lstrip(SubSeq(ln, 10, Len(ln))), ",", Len(format) - 1)
           raw_text == At(event, parser.text_idx[1])
           start == parse_time(At(event, parser.start_idx[1]))
           end == parse_time(At(event, parser.end_idx[1]))
           parsed_event == [start |-> start[1], end |-> end[1], raw_text |-> raw_text,
                            plain_text |-> escape_to_plain_text(raw_text)]
       IN /\ startswith(ln, "Dialogue:")
          /\ parser' =
               IF Len(event) # Len(format) \/ start = None \/ end = None
               THEN ParseRaise(parser, "ValueError")
               ELSE [parser EXCEPT
                       !.pos = @ + 1,
                       !.events = Append(@, parsed_event),
                       !.handled = Append(@, [kind |-> "event",
                                              event |-> <<start[1], end[1]>>])]
    /\ UNCHANGED <<ranges, units_per_second, cached_cumulative_skip, ret, added, codec, rewriter, writer, manager, prober, cli, subs, srs>>

\* parse: the file is read: Subtitles(events, event_units_per_second=100).
ParseReturn ==
    /\ parser.pc = "loop"
    /\ parser.pos = Len(parser.in_file)
    /\ parser' = [parser EXCEPT !.pc = "end"]
    /\ UNCHANGED <<ranges, units_per_second, cached_cumulative_skip, ret, added, codec, rewriter, writer, manager, prober, cli, subs, srs>>

\* Lines of an ASS file: section headers, Format lines with and without the
\* Text field, blank lines, Dialogue lines, well formed and not.
AssLinePool ==
    {"[Events]\n", "\n", "Format: Start, End, Text\n", "Format: Start, End\n",
     "Format: Text, Start, End\n", "Comment: c\n",
     "Dialogue: 0:00:00.00,0:00:00.02,hi\\N\n", "Dialogue: 0:00:00.00\n",
     "Dialogue: 0:00:00.00,0:00:00.02\n"}

\* parse and retime are each called on the same file of up to MaxLines lines;
\* retime is given two ranges in hundredths of a second.
InitAss ==
    /\ srs = NoSrs
    /\ subs = NoSubs
    /\ cli = NoCli
    /\ prober = NoProber
    /\ manager = NoManager
    /\ writer = NoWriter
    /\ ret = Ret("none", <<>>, <<>>, <<>>, "")
    /\ added = <<>>
    /\ codec = NoCodec
    /\ ranges = LineFileRanges
    /\ units_per_second = event_units_per_second
    /\ cached_cumulative_skip = None
    /\ \E f \in SeqsUpTo(AssLinePool, MaxLines) :
          /\ rewriter = [NoRewriter EXCEPT !.pc = "begin", !.in_file = f]
          /\ parser = [NoParser EXCEPT !.pc = "loop", !.in_file = f]

NextAss ==
    \/ ParseSkipUntilEvents
    \/ ParseGetFormat
    \/ ParseGetEventsOther
    \/ ParseGetEventsDialogue
    \/ ParseReturn
    \/ RetimeBegin
    \/ SkipUntilEvents
    \/ GetFormat
    \/ GetEventsOther
    \/ GetEventsDialogue
    \/ RetimeReturn

SpecAss == InitAss /\ [][NextAss]_vars

(***************************************************************************)
(* cli_srs.main: the rows and the screenshot jobs made from the events.    *)
(***************************************************************************)
\* for sub_event in subs.events: one iteration: a job is listed if a
\* screenshot is wanted and possible, and the row is written.
SrsRow ==
    /\ srs.pc = "rows"
    /\ srs.i < Len(subs.events)
    /\ LET sub_event == subs.events[srs.i + 1]
           time_range == <<sub_event.start, sub_event.end>>
           screenclip_path == IF srs.screenclip THEN Some(time_range)
                              ELSE srs.screenclip_path
           job == [output_path |-> time_range, timestamp |-> sub_event.start]
           row == [text |-> sub_event.plain_text, screenclip_path |-> screenclip_path]
       IN srs' = [srs EXCEPT
                    !.screenclip_path = screenclip_path,
                    !.jobs = IF srs.screenclip THEN Append(@, job) ELSE @,
                    !.rows = Append(@, row),
                    !.i = @ + 1]
    /\ UNCHANGED <<ranges, units_per_second, cached_cumulative_skip, ret, added, codec, rewriter, writer, manager, prober, cli, subs, parser>>

\* The loop over the events ends and the export file is closed.
SrsRowsEnd ==
    /\ srs.pc = "rows"
    /\ srs.i = Len(subs.events)
    /\ srs' = [srs EXCEPT !.pc = "jobs"]
    /\ UNCHANGED <<ranges, units_per_second, cached_cumulative_skip, ret, added, codec, rewriter, writer, manager, prober, cli, subs, parser>>

\* for job in jobs: one iteration: SrsExportJob.__call__ returns at once if
\* its output exists, and else runs the media tool with check=True.
SrsCallJob(exists, outcome) ==
    /\ srs.pc = "jobs"
    /\ srs.job_progress < Len(srs.jobs)
    /\ LET job == srs.jobs[srs.job_progress + 1]
       IN srs' = IF exists THEN [srs EXCEPT !.job_progress = @ + 1]
                 ELSE IF outcome = "return"
                 THEN [srs EXCEPT !.job_progress = @ + 1,
                                  !.log = Append(@, job.output_path)]
                 ELSE [srs EXCEPT !.pc = "raised"]
    /\ UNCHANGED <<ranges, units_per_second, cached_cumulative_skip, ret, added, codec, rewriter, writer, manager, prober, cli, subs, parser>>

\* The loop over the jobs ends.
SrsJobsEnd ==
    /\ srs.pc = "jobs"
    /\ srs.job_progress = Len(srs.jobs)
    /\ srs' = [srs EXCEPT !.pc = "done"]
    /\ UNCHANGED <<ranges, units_per_second, cached_cumulative_skip, ret, added, codec, rewriter, writer, manager, prober, cli, subs, parser>>

\* The subtitles are parsed; a screenshot is wanted and possible, or not.
InitSrs ==
    /\ ranges = <<>>
    /\ units_per_second = 1
    /\ cached_cumulative_skip = None
    /\ ret = Ret("none", <<>>, <<>>, <<>>, "")
    /\ added = <<>>
    /\ codec = NoCodec
    /\ rewriter = NoRewriter
    /\ writer = NoWriter
    /\ manager = NoManager
    /\ prober = NoProber
    /\ cli = NoCli
    /\ parser = NoParser
    /\ \E events \in EventLists, screenclip \in BOOLEAN :
          /\ subs = [NoSubs EXCEPT !.events = events, !.given = events]
          /\ srs = [NoSrs EXCEPT !.pc = "rows", !.screenclip = screenclip]

NextSrs ==
    \/ SrsRow
    \/ SrsRowsEnd
    \/ \E exists \in BOOLEAN, outcome \in {"return", "Exception"} :
          SrsCallJob(exists, outcome)
    \/ SrsJobsEnd

SpecSrs == InitSrs /\ [][NextSrs]_vars

(***************************************************************************)
(* The events of a condense run retimed by the ranges built from them:     *)
(* subs_time_ranges = from_unsorted(events), add_padding, and then         *)
(* adjust_timing of each event, as retime does for each Dialogue line.     *)
(***************************************************************************)
\* Events with start < end.
EventPairs == {p \in Times \X Times : p[1] < p[2]}

\* The events are kept in added, in the order of the file.
InitEvents ==
    /\ srs = NoSrs
    /\ parser = NoParser
    /\ subs = NoSubs
    /\ cli = NoCli
    /\ prober = NoProber
    /\ manager = NoManager
    /\ writer = NoWriter
    /\ rewriter = NoRewriter
    /\ codec = NoCodec
    /\ \E pairs \in SeqsUpTo(EventPairs, MaxUnsorted) :
          LET self == from_unsorted(pairs, event_units_per_second)
          IN /\ ranges = self._ranges
             /\ units_per_second = self._units_per_second
             /\ cached_cumulative_skip = self._cached_cumulative_skip
             /\ added = pairs
    /\ ret = Ret("from_unsorted", <<>>, <<>>, <<>>, "")

\* adjust_timing(start, end, time_ranges) for the k-th event, once the
\* ranges are padded.
AdjustEvent(k) ==
    /\ ret.op \in {"add_padding", "adjust_timing"}
    /\ LET r == adjust_timing(added[k][1], added[k][2], Self)
       IN /\ Store(r.self)
          /\ ret' = Ret("adjust_timing", added[k], r.val, <<>>, r.exc)
    /\ UNCHANGED <<added, codec, rewriter, writer, manager, prober, cli, subs, parser, srs>>

NextEvents ==
    \/ \E pad_start \in 0..MaxPad, pad_end \in 0..MaxPad : RangesPadded(pad_start, pad_end)
    \/ \E k \in 1..MaxUnsorted : k <= Len(added) /\ AdjustEvent(k)

SpecEvents == InitEvents /\ [][NextEvents]_vars

(***************************************************************************)
(* Vocabulary of the claims about TimeRanges and adjust_timing.            *)
(***************************************************************************)

\* Strictly ordered by start, adjacent ranges neither overlap nor touch, and
\* no start is negative.
Consolidated(rs) ==
    /\ \A i \in 1..Len(rs) : rs[i][1] >= 0
    /\ \A i \in 1..(Len(rs) - 1) : rs[i][1] < rs[i + 1][1] /\ rs[i][2] < rs[i + 1][1]

\* The cumulative skip S of a range list: S[0] = ranges[0].start and
\* S[i] = S[i-1] + ranges[i].start - ranges[i-1].end (positions from 1 here).
RECURSIVE SkipAt(_, _)
SkipAt(rs, i) ==
    IF i = 1 THEN rs[1][1] ELSE SkipAt(rs, i - 1) + rs[i][1] - rs[i - 1][2]
SkipVector(rs) == [i \in 1..Len(rs) |-> SkipAt(rs, i)]

\* K(t): the kept time before t, the sum over the ranges of
\* max(0, min(t, end) - start).
RECURSIVE KeptBefore(_, _)
KeptBefore(rs, t) ==
    IF rs = <<>> THEN 0
    ELSE Max(0, Min(t, rs[Len(rs)][2]) - rs[Len(rs)][1])
         + KeptBefore(SubSeq(rs, 1, Len(rs) - 1), t)

AdjustCalled == ret.op = "adjust_timing"

\* C1: every TimeRanges produced by from_unsorted or by a sequence of add,
\* add_padding and set_units_per_second / with_units_per_second calls has a
\* range list strictly ordered by start, in which no two adjacent ranges
\* overlap or touch and every start is >= 0.
RangesStayConsolidated ==
    /\ Consolidated(ranges)
    /\ ret.op = "with_units_per_second" => Consolidated(ret.out)

\* C2: in every reachable state the cached cumulative skip is absent or equal
\* to the vector S computed from the current ranges.
CacheAbsentOrConsistent ==
    \/ cached_cumulative_skip = None
    \/ cached_cumulative_skip = Some(SkipVector(ranges))

\* C3: on a consolidated TimeRanges, an event (s, e), s <= e, lying inside
\* range i is retimed to exactly (s - S[i], e - S[i]).
EventInsideRangeShifts ==
    (AdjustCalled /\ Consolidated(ranges)) =>
        \A i \in 1..Len(ranges) :
            (ranges[i][1] <= ret.args[1] /\ ret.args[2] <= ranges[i][2]) =>
                /\ ret.exc = ""
                /\ ret.val = << ret.args[1] - SkipAt(ranges, i),
                                ret.args[2] - SkipAt(ranges, i) >>

\* C3 restricted to events of positive length (s < e): this too fails, on a
\* TimeRanges whose cache add left stale (see C2).
EventInsideRangeShiftsPositive ==
    (AdjustCalled /\ Consolidated(ranges) /\ ret.args[1] < ret.args[2]) =>
        \A i \in 1..Len(ranges) :
            (ranges[i][1] <= ret.args[1] /\ ret.args[2] <= ranges[i][2]) =>
                /\ ret.exc = ""
                /\ ret.val = << ret.args[1] - SkipAt(ranges, i),
                                ret.args[2] - SkipAt(ranges, i) >>

\* The closed span [s, e] meets no range.
MeetsNoRange(rs, s, e) ==
    \A i \in 1..Len(rs) : ~(rs[i][1] <= e /\ s <= rs[i][2])

\* C4: on a consolidated TimeRanges (the empty one included), an event whose
\* closed span [s, e] meets no range is dropped: adjust_timing returns None.
EventOutsideRangesDropped ==
    (AdjustCalled /\ Consolidated(ranges)
        /\ MeetsNoRange(ranges, ret.args[1], ret.args[2])) =>
            (ret.exc = "" /\ ret.val = None)

\* C5: on a consolidated TimeRanges, an event (s, e) with s < e is retimed to
\* (K(s), K(e)), and dropped exactly when K(e) = K(s).
EventClippedToKeptTime ==
    (AdjustCalled /\ Consolidated(ranges) /\ ret.args[1] < ret.args[2]) =>
        LET ks == KeptBefore(ranges, ret.args[1])
            ke == KeptBefore(ranges, ret.args[2])
        IN /\ ret.exc = ""
           /\ ret.val = IF ke = ks THEN None ELSE <<ks, ke>>

\* adjust_timing was applied to an object whose cache is absent or right.
CacheSound ==
    \/ cached_cumulative_skip = None
    \/ cached_cumulative_skip = Some(SkipVector(ranges))

\* What C3 to C5 come to on an object with a sound cache: they hold there
\* (C3 for s < e), so that the stale cache is their only failure.
RetimerRightOnSoundCache ==
    (AdjustCalled /\ Consolidated(ranges) /\ ret.exc = "") =>
        LET s == ret.args[1]
            e == ret.args[2]
            ks == KeptBefore(ranges, s)
            ke == KeptBefore(ranges, e)
        IN /\ s < e => ret.val = IF ke = ks THEN None ELSE <<ks, ke>>
           /\ MeetsNoRange(ranges, s, e) => ret.val = None
           /\ s = e => ret.val = None

\* C7: with_units_per_second maps every range to (floor(start*f), ceil(end*f)),
\* f = new_ups/old_ups, and both r.with_units_per_second(b) and
\* r.with_units_per_second(a).with_units_per_second(b) give, for each range of
\* r, a range with new start <= start*b/old_ups and new end >= end*b/old_ups.
RescaleCoversScaledUnion ==
    ret.op = "with_units_per_second" =>
        LET b == ret.args[Len(ret.args)]
            old == units_per_second
        IN /\ Len(ret.out) = Len(ranges)
           /\ \A i \in 1..Len(ranges) :
                /\ ret.out[i][1] * old <= ranges[i][1] * b
                /\ ret.out[i][2] * old >= ranges[i][2] * b
           /\ Len(ret.args) = 1 =>
                \A i \in 1..Len(ranges) :
                    ret.out[i] = << (ranges[i][1] * b) \div old,
                                    -((-(ranges[i][2] * b)) \div old) >>

\* The pairs of a sequence, as a set.
Elems(seq) == {seq[i] : i \in 1..Len(seq)}

\* rs is the merged union of the pairs: consolidated, every pair lies inside a
\* range, every range starts at the start of a pair and ends at the end of
\* one, and every unit step inside a range is covered by a pair.
MergedUnion(rs, pairs) ==
    /\ Consolidated(rs)
    /\ \A p \in Elems(pairs) : \E r \in Elems(rs) : r[1] <= p[1] /\ p[2] <= r[2]
    /\ \A r \in Elems(rs) :
        /\ \E p \in Elems(pairs) : p[1] = r[1]
        /\ \E p \in Elems(pairs) : p[2] = r[2]
        /\ \A x \in r[1]..(r[2] - 1) : \E p \in Elems(pairs) : p[1] <= x /\ x + 1 <= p[2]

\* C8: from an empty TimeRanges, adding pairs (0 <= start <= end) with add, in
\* any order, yields the range list from_unsorted yields for those pairs: the
\* pairs sorted by start with overlapping or touching ones merged.
AddsEqualFromUnsorted ==
    /\ ranges = from_unsorted(added, units_per_second)._ranges
    /\ MergedUnion(ranges, added)

\* Three pairs added out of order have been merged into one range that is
\* none of them.
AddsMergedOutOfOrder ==
    /\ Len(added) = 3
    /\ added[1][1] > added[2][1]
    /\ added[2][1] < added[3][1]
    /\ Len(ranges) = 1
    /\ ranges[1] \notin Elems(added)

\* The parts H, MM, SS, CC of a field of the form H:MM:SS.CC.
FieldHours(x) == split(x, ":")[1]
FieldMins(x) == split(x, ":")[2]
FieldSeconds(x) == split(split(x, ":")[3], ".")[1]

\* H has no leading zero (or is the single digit 0) and MM, SS are at most 59.
CanonicalField(x) ==
    /\ Len(FieldHours(x)) > 1 => Char(FieldHours(x), 1) # "0"
    /\ DigitsValue(FieldMins(x), 0) <= 59
    /\ DigitsValue(FieldSeconds(x), 0) <= 59

\* C9 as stated: unparse_time(parse_time(x)) = x for every x of the form
\* H:MM:SS.CC, H one or more digits and MM, SS, CC any two digits.
RoundTripEveryField ==
    codec.pc \in {"done", "raised"} => codec.text = Some(codec.field)

\* C9 as amended: unparse_time(parse_time(x)) = x for the fields H:MM:SS.CC
\* whose H has no leading zero (or is "0") and whose MM and SS are at most 59,
\* and for no other field of that form.
RoundTripCanonicalField ==
    codec.pc \in {"done", "raised"} =>
        (codec.text = Some(codec.field) <=> CanonicalField(codec.field))

\* A field with two hour digits and nonzero minutes, seconds and hundredths
\* has gone through both conversions and come back unchanged.
RoundTripDone ==
    /\ codec.pc = "done"
    /\ codec.field = "95:59:09.50"
    /\ codec.hundredths = Some(34554950)
    /\ codec.text = Some(codec.field)

(***************************************************************************)
(* Claims about the ASS rewriter.                                          *)
(***************************************************************************)
\* The text of a Dialogue line of the files above: what follows the two time
\* fields, without the line terminator.
TextOf(line) == SubSeq(line, Len(DialogueLine(0, 0, "")), Len(line) - 1)

\* The Dialogue line expected for line k of the input, once retimed.
ExpectedDialogue(k) ==
    "Dialogue: " \o StampField(rewriter.handled[k].new[1]) \o ","
        \o StampField(rewriter.handled[k].new[2]) \o ","
        \o TextOf(rewriter.in_file[k]) \o "\n"

\* What the output holds for line k of the input: the line retimed for an
\* event that survives, nothing for an event that does not, and for any other
\* line what was written when it was copied.
ExpectedFor(k) ==
    CASE rewriter.handled[k].kind = "retimed" -> ExpectedDialogue(k)
      [] rewriter.handled[k].kind = "copied" -> rewriter.handled[k].out
      [] OTHER -> ""

\* C6: for two events A and B that both survive, A.start <= B.start implies
\* A'.start <= B'.start and A.end <= B.start implies A'.end <= B'.start, and
\* the output holds the retimed lines of the survivors in input order.
RetimeKeepsOrder ==
    /\ \A i \in DOMAIN rewriter.handled, j \in DOMAIN rewriter.handled :
          LET A == rewriter.handled[i]
              B == rewriter.handled[j]
          IN (A.kind = "retimed" /\ B.kind = "retimed") =>
                /\ A.event[1] <= B.event[1] => A.new[1] <= B.new[1]
                /\ A.event[2] <= B.event[1] => A.new[2] <= B.new[1]
    /\ rewriter.out_file =
          join("", [k \in DOMAIN rewriter.handled |-> ExpectedFor(k)])

\* Two events that do not overlap, one in each of two ranges, both survive:
\* the second is moved back by the gap between the ranges and the two lines
\* are written in input order.
RetimeKeptOrderOfTwo ==
    /\ rewriter.pc = "end"
    /\ ranges = <<<<0, 1>>, <<2, 3>>>>
    /\ rewriter.in_file[3] = "Dialogue: 0:00:00.00,0:00:00.01,a, 1\n"
    /\ rewriter.in_file[4] = "Dialogue: 0:00:00.02,0:00:00.03,b, 2\n"
    /\ rewriter.handled[3].new = <<0, 1>>
    /\ rewriter.handled[4].new = <<1, 2>>
    /\ rewriter.out_file =
          "[Events]\nFormat: Start, End, Text\n"
             \o "Dialogue: 0:00:00.00,0:00:00.01,a, 1\n"
             \o "Dialogue: 0:00:00.01,0:00:00.02,b, 2\n"

\* C10: every line that is not a recognized dialogue line is copied to the
\* output character for character, trailing white space and line terminator
\* included, in the original order.
CopiedVerbatim ==
    /\ \A k \in DOMAIN rewriter.handled :
          rewriter.handled[k].kind = "copied" =>
              rewriter.handled[k].out = rewriter.in_file[k]
    /\ (\A k \in DOMAIN rewriter.handled : rewriter.handled[k].kind = "copied") =>
          rewriter.out_file = join("", SubSeq(rewriter.in_file, 1, Len(rewriter.handled)))

\* What does hold for the lines copied: each is written without its trailing
\* white space and with one line feed.
CopiedStripped ==
    \A k \in DOMAIN rewriter.handled :
        rewriter.handled[k].kind = "copied" =>
            rewriter.handled[k].out = rstrip(rewriter.in_file[k]) \o "\n"

\* C11: the new times of every dialogue event are those adjust_timing gives
\* against the TimeRanges rescaled to 100 units per second, whatever units
\* per second the TimeRanges given to retime carries.
RetimeUsesHundredths ==
    \A k \in DOMAIN rewriter.handled :
        LET h == rewriter.handled[k]
            rescaled == with_units_per_second(Self, 100)
        IN h.kind \in {"retimed", "dropped"} =>
              adjust_timing(h.event[1], h.event[2], rescaled).val = h.new

\* What the code does: the new times are those adjust_timing gives against
\* the TimeRanges as it was passed.
RetimeUsesRangesAsGiven ==
    \A k \in DOMAIN rewriter.handled :
        LET h == rewriter.handled[k]
        IN h.kind \in {"retimed", "dropped"} =>
              adjust_timing(h.event[1], h.event[2], Self).val = h.new

(***************************************************************************)
(* Claims about the filter-graph writers.                                  *)
(***************************************************************************)
\* The label of the k-th trimmed stream and of the k-th concatenation, from 0.
TrimLabel(k) == (IF writer.kind = "audio" THEN "a" ELSE "v") \o DigitChar(k)
ConcatLabel(k) == (IF writer.kind = "audio" THEN "ca" ELSE "cv") \o DigitChar(k)

\* The label pending once k + 1 ranges have been processed.
PendingLabel(k) == IF k = 0 THEN TrimLabel(0) ELSE ConcatLabel(k - 1)

\* The trim statement expected for range k, from 0, without its semicolon.
ExpectedTrim(k) ==
    "[" \o DigitChar(writer.file_index) \o ":" \o DigitChar(writer.stream_index) \o "]"
        \o (IF writer.kind = "audio" THEN "atrim" ELSE "trim")
        \o "=start_pts=" \o DigitChar(ranges[k + 1][1])
        \o ":end_pts=" \o DigitChar(ranges[k + 1][2])
        \o (IF writer.kind = "audio" THEN ",asetpts" ELSE ",setpts") \o "=PTS-STARTPTS"
        \o "[" \o TrimLabel(k) \o "]"

\* The concat statement expected after range k >= 1, without its semicolon.
ExpectedConcat(k) ==
    "[" \o PendingLabel(k - 1) \o "][" \o TrimLabel(k) \o "]"
        \o (IF writer.kind = "audio" THEN "concat=v=0:a=1" ELSE "concat")
        \o "[" \o ConcatLabel(k - 1) \o "]"

\* The statements expected once n >= 1 ranges have been processed, each
\* ended by a semicolon: n trims and n - 1 concats.
ExpectedStatements(n) ==
    [j \in 1..(2 * n - 1) |->
        IF j = 1 THEN ExpectedTrim(0) \o ";"
        ELSE IF j % 2 = 0 THEN ExpectedTrim(j \div 2) \o ";"
        ELSE ExpectedConcat(j \div 2) \o ";"]

\* C12: once n >= 1 ranges have been processed the file holds n trim
\* statements, one per range in order with its start and end, and n - 1 concat
\* statements, each joining the pending label and the newest trim in that
\* order; exactly one label is pending, and it is the label returned.
FilterStatementsPerRange ==
    (writer.pc \in {"loop", "returned"} /\ writer.pos >= 1) =>
        /\ writer.file = join("", ExpectedStatements(writer.pos))
        /\ writer.streams = <<PendingLabel(writer.pos - 1)>>
        /\ writer.pc = "returned" =>
              /\ writer.pos = Len(ranges)
              /\ writer.returned = Some(PendingLabel(Len(ranges) - 1))

\* A video writer has returned cv1 for three ranges.
FilterReturnedForThree ==
    /\ writer.pc = "returned"
    /\ writer.kind = "video"
    /\ ranges = <<<<0, 0>>, <<1, 2>>, <<3, 3>>>>
    /\ writer.returned = Some("cv1")
    /\ writer.file =
          "[1:0]trim=start_pts=0:end_pts=0,setpts=PTS-STARTPTS[v0];"
             \o "[1:0]trim=start_pts=1:end_pts=2,setpts=PTS-STARTPTS[v1];"
             \o "[v0][v1]concat[cv0];"
             \o "[1:0]trim=start_pts=3:end_pts=3,setpts=PTS-STARTPTS[v2];"
             \o "[cv0][v2]concat[cv1];"

(***************************************************************************)
(* Claims about MultiContextManager.                                       *)
(***************************************************************************)
Reverse(seq) == [i \in 1..Len(seq) |-> seq[Len(seq) + 1 - i]]
IsPrefix(a, b) == Len(a) <= Len(b) /\ a = SubSeq(b, 1, Len(a))

\* While and after __exit__ runs, the children released so far are the last
\* accepted ones in reverse order, each once, and the others are still held.
ReleasedInReverse ==
    /\ IsPrefix(manager.released, Reverse(manager.accepted))
    /\ manager.accepted = manager._close_later \o Reverse(manager.released)

\* The errors are surfaced as one group, after the last release.
ErrorsSurfacedLast ==
    /\ manager.raised = "ExceptionGroup" =>
          manager._close_later = <<>> /\ manager.errors # <<>>
    /\ manager.pc = "returned" => manager.errors = <<>>

LaterCallsReturnStored ==
    /\ (prober.calls > 0 /\ prober.last.allow_cache
            /\ prober.last.before[prober.last.target_path] # None) =>
          /\ ~prober.last.ran
          /\ prober.last.returned = prober.last.before[prober.last.target_path]
          /\ prober._cached_results = prober.last.before
    /\ (prober.calls > 0 /\ prober.last.raised # "") =>
          prober._cached_results = prober.last.before

\* C14 as stated: with caching allowed in every call, the subprocess is
\* started at most once per path, every later call for the path returns the
\* result stored by the first, and a probe that fails leaves the cache
\* unchanged.
ProbeStartedOncePerPath ==
    /\ LaterCallsReturnStored
    /\ prober.all_allowed => \A p \in Paths : prober.started[p] <= 1

\* C14 as amended: with caching allowed in every call, the subprocess is
\* started for a path only while no probe of that path has succeeded, so
\* that at most one run per path succeeds, and it is the last one.
ProbeStartedUntilSuccess ==
    /\ LaterCallsReturnStored
    /\ prober.all_allowed =>
          \A p \in Paths :
              /\ prober.stored[p] <= 1
              /\ prober._cached_results[p] # None <=> prober.stored[p] = 1
              /\ (prober.calls > 0 /\ prober.last.target_path = p /\ prober.last.ran) =>
                    prober.last.before[p] = None

\* The path was probed three times with caching allowed: the first run
\* failed, the second succeeded and the third call returned its result.
ProbeRetriedThenCached ==
    /\ prober.calls = 3
    /\ prober.all_allowed
    /\ prober.started["a.mkv"] = 2
    /\ prober.started["b.mkv"] = 0
    /\ prober._cached_results["a.mkv"] = Some(2)
    /\ ~prober.last.ran
    /\ prober.last.returned = Some(2)

(***************************************************************************)
(* Claims about the commands.                                              *)
(***************************************************************************)
\* The steps that start an external subprocess.
Subprocesses == {"probe", "demux", "trim", "screenshot"}

LogPositions(what) == {i \in DOMAIN cli.log : cli.log[i].what = what}

\* A requested output path exists: for condense the output media path or the
\* output subtitle path, for srs the export file path.
RequestedOutputExists ==
    IF cli.command = "condense" THEN cli.output_exists \/ cli.output_subs_exists
    ELSE cli.output_exists

\* C15: without --overwrite, if a requested output path exists, the run
\* fails with exit status 1 and no external subprocess was ever started.
ExistingOutputStopsRun ==
    (cli.command # "" /\ ~cli.allow_overwrite /\ RequestedOutputExists) =>
        /\ \A i \in DOMAIN cli.log : cli.log[i].what \notin Subprocesses
        /\ cli.pc \in {"resolve", "check_outputs", "exited"}
        /\ cli.pc = "exited" => cli.status = Some(1)

\* A condense run whose output subtitle path exists has ended with status 1
\* at the check of the output paths, with nothing done.
ExistingOutputStoppedCondense ==
    /\ cli.command = "condense"
    /\ cli.args = "ok"
    /\ ~cli.allow_overwrite
    /\ ~cli.output_exists
    /\ cli.output_subs_exists
    /\ cli.pc = "exited"
    /\ cli.status = Some(1)
    /\ cli.log = <<>>

\* C16: a scratch directory created by the command is released exactly once
\* on every way out after its creation; one given by the user is never
\* registered nor released; a failed release makes condense exit with 1.
ScratchReleasedOnce ==
    /\ cli.released <= cli.created
    /\ cli.created <= 1
    /\ Len(cli.close_later) = cli.created - cli.released
    /\ cli.pc = "exited" => cli.released = cli.created
    /\ cli.scratch_given =>
          /\ cli.created = 0
          /\ cli.close_later = <<>>
          /\ LogPositions("mkdtemp") = {} /\ LogPositions("release") = {}
    /\ (/\ cli.command = "condense"
        /\ cli.pc = "exited"
        /\ \E i \in LogPositions("release") : cli.log[i].outcome = "Exception")
          => cli.status = Some(1)

\* A condense run did all its work, then failed to release its scratch
\* directory: released once, status 1.
ScratchReleaseFailedAfterSuccess ==
    /\ cli.command = "condense"
    /\ ~cli.scratch_given
    /\ cli.pc = "exited"
    /\ cli.pending = "return 0"
    /\ cli.media_out /\ cli.subs_out
    /\ cli.created = 1 /\ cli.released = 1
    /\ \E i \in LogPositions("release") : cli.log[i].outcome = "Exception"
    /\ cli.status = Some(1)

\* The records of the retimed subtitles being moved or converted to the
\* output subtitle path: those after the retiming.
PlacePositions ==
    {i \in LogPositions("move") \cup LogPositions("demux") :
        \E j \in LogPositions("retime") : j < i}

\* C17: in a condense run the filter-graph file is written and closed before
\* the media tool runs on it, the media tool has returned successfully before
\* the retimed subtitles are placed, and they are not placed if it failed.
FilterThenMediaThenSubs ==
    cli.command = "condense" =>
        /\ \A i \in LogPositions("trim") : cli.log[i].filter_file = "closed"
        /\ \A i \in PlacePositions :
              /\ cli.log[i].media_out
              /\ \E j \in LogPositions("trim") :
                    j < i /\ cli.log[j].outcome = "return"
        /\ (\E j \in LogPositions("trim") : cli.log[j].outcome # "return") =>
              (~cli.subs_out /\ PlacePositions = {})
        /\ cli.subs_out => cli.media_out

\* A condense run returned 0 after converting the retimed subtitles.
CondensedAndConverted ==
    /\ cli.command = "condense"
    /\ cli.pc = "exited"
    /\ cli.status = Some(0)
    /\ ~cli.same_ext
    /\ cli.subs_out
    /\ PlacePositions # {}

\* A condense run ended because the media tool failed.
MediaToolFailed ==
    /\ cli.command = "condense"
    /\ cli.pc = "exited"
    /\ \E j \in LogPositions("trim") : cli.log[j].outcome = "Exception"

(***************************************************************************)
(* Claims about modify_subtitles.                                          *)
(***************************************************************************)
\* The text is empty or all whitespace.
Blank(text) == \A k \in 1..Len(text) : Char(text, k) \in Whitespace

\* x occurs in the text: the text is some a, then x, then some b.
Occurs(x, text) ==
    \E k \in 0..Len(text), l \in 0..Len(text) :
        /\ k <= l
        /\ SubSeq(text, 1, k) \o x \o SubSeq(text, l + 1, Len(text)) = text

StringsOf(list) == IF list = None THEN {} ELSE {list[1][k] : k \in DOMAIN list[1]}

\* The event is one that modify_subtitles is to leave.
Left(e) ==
    /\ subs.keep_blank \/ ~Blank(e.plain_text)
    /\ \A x \in StringsOf(subs.remove_containing) : ~Occurs(x, e.plain_text)
    /\ \A x \in StringsOf(subs.keep_containing) : Occurs(x, e.plain_text)

\* C18: modify_subtitles leaves exactly the events, in their order and
\* unaltered, whose plain_text is not blank (unless keep_blank), contains
\* none of the remove_containing strings and all the keep_containing strings.
ModifyLeavesExactly ==
    subs.pc = "returned" => subs.events = SelectSeq(subs.given, Left)

\* modify_subtitles returned, having removed a blank event and an event with
\* a string to remove, and kept the event between them.
ModifiedThreeWays ==
    /\ subs.pc = "returned"
    /\ ~subs.keep_blank
    /\ subs.remove_containing = Some(<<"a">>)
    /\ subs.keep_containing # None
    /\ Len(subs.given) = MaxEvents
    /\ \E k \in DOMAIN subs.given : subs.given[k].plain_text = "ba"
    /\ \E k \in DOMAIN subs.given : subs.given[k].plain_text = "b"
    /\ Len(subs.events) = 1
    /\ subs.events[1].plain_text = "b"

(***************************************************************************)
(* Claims about the time ranges of a condense run.                         *)
(***************************************************************************)
\* C19: the ranges handed to the filter-graph writers (the padded subtitle
\* ranges rescaled to the units per second of each media stream) are
\* consolidated: sorted by start, no two of them overlapping or touching.
EmittedRangesConsolidated ==
    ret.op \in {"audio_time_ranges", "video_time_ranges"} => Consolidated(ret.out)

\* The ranges retime is given, before any rescaling, are consolidated.
RetimedRangesConsolidated ==
    ret.op \in {"add_padding", "audio_time_ranges", "video_time_ranges"} =>
        Consolidated(ranges)

(***************************************************************************)
(* Claims about rescaling by a factor that is not positive.                *)
(***************************************************************************)
\* C20: rescaling fails with an Invalid error (ValueError) and leaves the
\* ranges, the units per second and the cache unchanged whenever the factor
\* new_ups / old_ups is not finite and positive, as for new_ups <= 0.
RescaleRejectsBadFactor ==
    /\ (ret.op = "set_units_per_second" /\ ret.args[1] <= 0) =>
          /\ ret.exc = "ValueError"
          /\ ranges = ret.out
          /\ units_per_second = ret.val[1]
          /\ cached_cumulative_skip = ret.val[2]
    /\ (ret.op = "with_units_per_second" /\ ret.args[1] <= 0) =>
          ret.exc = "ValueError"

(***************************************************************************)
(* Claims about add_padding.                                               *)
(***************************************************************************)
\* C21: add_padding with a negative pad_start or pad_end fails with an
\* Invalid error (ValueError) and leaves the TimeRanges unchanged; no call
\* of add_padding produces a range whose start is greater than its end.
PaddingRejectsNegative ==
    ret.op = "add_padding" =>
        /\ (ret.args[1] < 0 \/ ret.args[2] < 0) =>
              /\ ret.exc = "ValueError"
              /\ ranges = ret.out
              /\ units_per_second = ret.val[1]
              /\ cached_cumulative_skip = ret.val[2]
        /\ \A i \in 1..Len(ranges) : ranges[i][1] <= ranges[i][2]

\* The call was add_padding with pads >= 0 on a consolidated set.
PaddedConsolidated ==
    /\ ret.op = "add_padding"
    /\ ret.args[1] >= 0 /\ ret.args[2] >= 0
    /\ Consolidated(ret.out)
    /\ \A i \in 1..Len(ret.out) : ret.out[i][1] <= ret.out[i][2]

\* The ranges before the call as add_padding pads them: rescaled to pad_ups
\* if that is larger than the units per second, then widened by the pads,
\* which are rescaled themselves if pad_ups is smaller.
PaddedRange(i) ==
    LET u == ret.val[1]
        pu == ret.args[3]
        s == IF pu > u THEN (ret.out[i][1] * pu) \div u ELSE ret.out[i][1]
        e == IF pu > u THEN (ret.out[i][2] * pu + u - 1) \div u ELSE ret.out[i][2]
        ps == IF pu < u THEN (ret.args[1] * u) \div pu ELSE ret.args[1]
        pe == IF pu < u THEN (ret.args[2] * u + pu - 1) \div pu ELSE ret.args[2]
    IN << IF s - ps < 0 THEN 0 ELSE s - ps, e + pe >>

\* C22: add_padding(ps, pe, pad_ups) with ps, pe >= 0 replaces a consolidated
\* set by the consolidation of its padded ranges, the ranges being first
\* rescaled to pad_ups if that is larger than the units per second: every
\* original range lies within a resulting one, no start is negative, the
\* result is consolidated and made of the padded ranges' starts and ends,
\* and padding by (0, 0) changes nothing.
PaddingRangesAreConsolidationOfPadded ==
    PaddedConsolidated =>
        IF ret.args[1] = 0 /\ ret.args[2] = 0
        THEN ranges = ret.out /\ cached_cumulative_skip = ret.val[2]
        ELSE /\ Consolidated(ranges)
             /\ cached_cumulative_skip = None
             /\ \A i \in 1..Len(ret.out) : \E j \in 1..Len(ranges) :
                   /\ ranges[j][1] <= PaddedRange(i)[1]
                   /\ PaddedRange(i)[2] <= ranges[j][2]
             /\ \A j \in 1..Len(ranges) :
                   /\ \E i \in 1..Len(ret.out) : ranges[j][1] = PaddedRange(i)[1]
                   /\ \E i \in 1..Len(ret.out) : ranges[j][2] = PaddedRange(i)[2]

\* add_padding rescaled two ranges to a larger pad_ups, padded them on both
\* sides, clipped the first at zero and merged the two.
PaddedClippedAndMerged ==
    /\ PaddedConsolidated
    /\ ret.args[3] > ret.val[1]
    /\ ret.args[1] > 0 /\ ret.args[2] > 0
    /\ Len(ret.out) = 2
    /\ ret.out[1][1] = 0
    /\ Len(ranges) = 1
    /\ ranges[1][1] = 0

(***************************************************************************)
(* Claims about get_index.                                                 *)
(***************************************************************************)
\* C23: for a consolidated TimeRanges and any integer t, get_index(t) returns
\* the least position i with ranges[i].start >= t, or len if every start is
\* smaller than t (positions from 0; ranges[k] here is position k - 1).
GetIndexIsLeastStartAtLeast ==
    (ret.op = "get_index" /\ Consolidated(ranges)) =>
        LET t == ret.args[1]
            i == ret.val[1]
        IN /\ i \in 0..Len(ranges)
           /\ \A k \in 1..i : ranges[k][1] < t
           /\ i < Len(ranges) => ranges[i + 1][1] >= t
           /\ Len(ranges) = 0 => i = 0
           /\ (\E k \in 1..Len(ranges) : ranges[k][1] = t) => ranges[i + 1][1] = t

\* get_index searched three ranges for a time strictly between two starts.
GetIndexBetweenStarts ==
    /\ ret.op = "get_index"
    /\ Len(ranges) = 3
    /\ ret.val[1] = 2
    /\ ranges[2][1] < ret.args[1]
    /\ ret.args[1] < ranges[3][1]

(***************************************************************************)
(* Claims about the line state machine of parse and retime.                *)
(***************************************************************************)
\* The line parse, resp. retime, raised on, stripped as the loop strips it.
ParseRaisedOn == rstrip(parser.in_file[parser.pos])
RetimeRaisedOn == rstrip(rewriter.in_file[rewriter.pos])

\* C24: after an [Events] line, blank lines are skipped until the Format
\* line: parse and retime raise while waiting for the Format line only on a
\* non-blank line; in the events a blank line returns to the first state.
FormatWaitSkipsBlankLines ==
    /\ (parser.pc = "raised" /\ parser.state = _STATE_GET_FORMAT) => ParseRaisedOn # ""
    /\ (rewriter.pc = "raised" /\ rewriter.state = _STATE_GET_FORMAT) => RetimeRaisedOn # ""

(***************************************************************************)
(* Claims about the rows of the export.                                    *)
(***************************************************************************)
\* The events the default subtitle modifications leave: not the blank ones.
SrsSurvivingEvents ==
    filter_events(subs.given, LAMBDA e : Len(strip(e.plain_text)) # 0)

\* C25: in the export the events are filtered by the subtitle modifications
\* (by default the events of blank text are removed) before the rows are
\* made: once the rows are written there is one row per surviving event, in
\* the order of the events, and one screenshot job if screenshots are made.
SrsRowsOnlyForSurvivingEvents ==
    srs.pc \in {"jobs", "raised", "done"} =>
        /\ Len(srs.rows) = Len(SrsSurvivingEvents)
        /\ \A k \in DOMAIN srs.rows :
              srs.rows[k].text = SrsSurvivingEvents[k].plain_text
        /\ srs.screenclip =>
              /\ Len(srs.jobs) = Len(SrsSurvivingEvents)
              /\ \A k \in DOMAIN srs.jobs :
                    srs.jobs[k].timestamp = SrsSurvivingEvents[k].start

(***************************************************************************)
(* Claims about what adjust_timing hands to unparse_time.                  *)
(***************************************************************************)
\* The total kept length: the sum of end - start over all ranges.
TotalKept(rs) == IF rs = <<>> THEN 0 ELSE KeptBefore(rs, rs[Len(rs)][2])

\* adjust_timing returned drop, or a pair within the kept time.
ReturnedWithinKept ==
    \/ ret.val = None
    \/ /\ 0 <= ret.val[1]
       /\ ret.val[1] < ret.val[2]
       /\ ret.val[2] <= TotalKept(ranges)

\* C26: on every consolidated TimeRanges and for every event (s, e) with
\* 0 <= s <= e, adjust_timing raises no indexing error and returns drop or a
\* pair (s', e') with 0 <= s' < e' <= total kept length, also for an event
\* wholly before the first range or wholly after the last one.
AdjustTimingStaysWithinKept ==
    (AdjustCalled /\ Consolidated(ranges)) =>
        /\ ret.exc = ""
        /\ ReturnedWithinKept

\* What C26 comes to on an object whose cache was absent or right when
\* adjust_timing was called: no call raised and every pair is within the
\* kept time, so that the stale cache is its only failure.
AdjustTimingWithinKeptOnSoundCache ==
    (AdjustCalled /\ Consolidated(ranges) /\ ret.exc = "") => ReturnedWithinKept

(***************************************************************************)
(* Claims about the events retimed by their own ranges.                    *)
(***************************************************************************)
\* C27: for ranges built by from_unsorted from events with 0 <= start < end
\* and padded by add_padding with non-negative amounts at the same units per
\* second, adjust_timing of each of those events never drops it and returns
\* an interval of exactly its duration end - start.
OwnEventsKeepDuration ==
    AdjustCalled =>
        /\ ret.exc = ""
        /\ ret.val # None
        /\ ret.val[2] - ret.val[1] = ret.args[2] - ret.args[1]

\* An event that starts inside a padded range made of two events, behind a
\* gap that is cut out, is retimed to an earlier time.
OwnEventMovedInsideMergedRange ==
    /\ AdjustCalled
    /\ Len(added) = 2
    /\ Len(ranges) = 1
    /\ ranges[1][1] > 0
    /\ ranges[1][1] < ret.args[1]
    /\ ret.val # None
    /\ ret.val[1] = ret.args[1] - ranges[1][1]

(***************************************************************************)
(* Claims about parse and retime reading the same file.                    *)
(***************************************************************************)
ParseFinished == parser.pc \in {"raised", "end"}
RetimeFinished == rewriter.pc \in {"raised", "end"}

\* After the same number of lines, none of them raised on, parse and retime
\* are in the same state.
SameStateAfterEveryLine ==
    (parser.pc = "loop" /\ rewriter.pc = "loop" /\ parser.pos = rewriter.pos) =>
        parser.state = rewriter.state

\* Of the lines both have read, the ones retime retimed or dropped are the
\* ones parse made an event of, with the same start and end.
SameEvents ==
    \A k \in 1..Min(parser.pos, rewriter.pos) :
        /\ (parser.handled[k].kind = "event") <=>
              (rewriter.handled[k].kind \in {"retimed", "dropped"})
        /\ parser.handled[k].kind = "event" =>
              parser.handled[k].event = rewriter.handled[k].event

\* C28: parse and retime implement the same line state machine: on any
\* input both are in the same state after every line, the lines retime
\* retimes or drops are the lines parse returns as events, with the same
\* start and end, and retime raises exactly when parse does.
ParserAndRewriterAgree ==
    /\ SameStateAfterEveryLine
    /\ SameEvents
    /\ (ParseFinished /\ RetimeFinished) =>
          /\ (rewriter.pc = "raised") <=> (parser.pc = "raised")
          /\ rewriter.pos = parser.pos

\* What C28 comes to in the code: the two agree on every line parse reads,
\* and where retime raises, parse has raised on that line or on an earlier
\* one (the Format line, which parse alone requires to end with Text).
RewriterAgreesWhereParserReads ==
    /\ SameStateAfterEveryLine
    /\ SameEvents
    /\ (ParseFinished /\ rewriter.pc = "raised") =>
          /\ parser.pc = "raised"
          /\ parser.pos <= rewriter.pos
    /\ (ParseFinished /\ RetimeFinished /\ parser.pos # rewriter.pos) =>
          LET format == StripAll(split(SubSeq(ParseRaisedOn, 8, Len(ParseRaisedOn)), ","))
          IN /\ parser.pc = "raised"
             /\ parser.state = _STATE_GET_FORMAT
             /\ index(format, "Text") # Len(format) - 1

(***************************************************************************)
(* Claims about the labels of the filter text.  A label stands between     *)
(* brackets; at the end of a statement, before the semicolon, it is        *)
(* defined, and at the start of a statement it is used, unless it holds a  *)
(* colon and names a stream of an input file.                              *)
(***************************************************************************)
LabelOpens == {i \in 1..Len(writer.file) : Char(writer.file, i) = "["}

\* The closing bracket of the label opened at i.
LabelClose(i) ==
    CHOOSE j \in (i + 1)..Len(writer.file) :
        /\ Char(writer.file, j) = "]"
        /\ \A k \in (i + 1)..(j - 1) : Char(writer.file, k) # "]"

LabelAt(i) == SubSeq(writer.file, i + 1, LabelClose(i) - 1)

LabelDefs == {i \in LabelOpens : Char(writer.file, LabelClose(i) + 1) = ";"}

LabelUses == {i \in LabelOpens \ LabelDefs : ~Contains(":", LabelAt(i))}

\* The labels the writers returned to main.
LabelsReturned ==
    {writer.returned[k] : k \in DOMAIN writer.returned}
        \cup {writer.output_audio_stream[k] : k \in DOMAIN writer.output_audio_stream}

\* C29: in the filter text written for n >= 1 ranges every label is defined
\* exactly once and before any statement uses it, every label but the
\* returned one is consumed by exactly one concat statement and the returned
\* one by none, also when the audio and the video graph are in one file.
LabelsDefinedOnceAndUsedOnce ==
    writer.pc = "returned" =>
        /\ \A d \in LabelDefs : \A e \in LabelDefs : LabelAt(d) = LabelAt(e) => d = e
        /\ \A u \in LabelUses : \E d \in LabelDefs : d < u /\ LabelAt(d) = LabelAt(u)
        /\ \A d \in LabelDefs :
              Cardinality({u \in LabelUses : LabelAt(u) = LabelAt(d)})
                  = IF LabelAt(d) \in LabelsReturned THEN 0 ELSE 1
        /\ writer.returned[1] \in {LabelAt(d) : d \in LabelDefs}

\* Both graphs are in the file, each of three trimmed streams concatenated
\* in two statements.
BothGraphsOfThreeRanges ==
    /\ writer.pc = "returned"
    /\ writer.kind = "video"
    /\ Len(ranges) = 3
    /\ writer.output_audio_stream = Some("ca1")
    /\ writer.returned = Some("cv1")
    /\ Cardinality(LabelDefs) = 10
    /\ Cardinality(LabelUses) = 8

(***************************************************************************)
(* Claims about unparse_time followed by parse_time.                       *)
(***************************************************************************)
\* Two decimal digits of a value of at most top.
TwoDigitsUpTo(s, top) == Len(s) = 2 /\ AllDigits(s) /\ DigitsValue(s, 0) <= top

\* H:MM:SS.CC with MM and SS in 00..59, CC in 00..99, and H of any length.
WellFormedTime(text) ==
    LET parts == split(text, ":")
        sh == split(parts[3], ".")
    IN /\ Len(parts) = 3
       /\ Len(parts[1]) >= 1
       /\ AllDigits(parts[1])
       /\ TwoDigitsUpTo(parts[2], 59)
       /\ Len(sh) = 2
       /\ TwoDigitsUpTo(sh[1], 59)
       /\ TwoDigitsUpTo(sh[2], 99)

\* C30: parse_time(unparse_time(n)) = n for every integer n >= 0, the text
\* unparse_time writes has minutes and seconds in 00..59 and hundredths in
\* 00..99 as two digits each and hours of any size, and unparse_time fails
\* on every n < 0.
UnparseThenParseGivesBack ==
    codec.pc # "unparse_first" =>
        IF codec.hundredths[1] < 0
        THEN codec.pc = "raised" /\ codec.text = None
        ELSE /\ codec.pc \in {"parse_back", "done"}
             /\ WellFormedTime(codec.text[1])
             /\ codec.pc = "done" => codec.back = codec.hundredths

\* Ten hours, 59 minutes, 9 seconds and 10 hundredths have been unparsed and
\* parsed back.
UnparsedAndParsedBack ==
    /\ codec.pc = "done"
    /\ codec.hundredths = Some(3954910)
    /\ codec.text = Some("10:59:09.10")
    /\ codec.back = Some(3954910)

====
